---- MODULE Spec2Model ----
(***************************************************************************)
(* MiraETS: the entity/component store (World, SparseSet, ComponentMask,   *)
(* observers, views) and the system scheduler as state machines.  Every    *)
(* operation of the C++ API is one action, RunGraph a sequence of steps of *)
(* the calling thread and of the pool's workers; the operations themselves *)
(* are operators on records that carry the C++ members under their names.  *)
(***************************************************************************)
EXTENDS Integers, Sequences, FiniteSets, TLC

VARIABLES
    \* ---- a stand-alone SparseSet<int> (SparseSet.hpp) ----
    set,          \* [m_DenseData, m_DenseToEntity, m_SparsePages]
    ssOp,         \* the last SparseSet call: [op, entity, component, size, ret];
                  \* size is Size() before the call, ret what Contains returned
    \* ---- one World (World.hpp) ----
    m_EntitySignatures,   \* vector<ComponentMask>, a mask is its set of bits
    m_EntityGenerations,  \* vector<uint32_t>
    m_FreeEntities,       \* vector<EntityID>
    m_ComponentStores,    \* type -> SparseSet, an entry once GetStore<T> ran
    m_StoresByID,         \* the component ids whose slot holds a store pointer
    m_OnRemovedTriggers,  \* the component ids whose slot holds a closure
    m_ComponentSignals,   \* type -> [onAdded, onRemoved, onModified]
    lastOp,               \* the last World call: [op, id, type, value, ret, had]
    events,               \* the callbacks the last World call invoked, in order:
                          \* [event, type, id, value, cb, depth, has, contains]
    ub,                   \* a call has indexed m_EntityGenerations beyond its end
    \* ---- one SystemScheduler and its ThreadPool (SystemScheduler.hpp) ----
    m_Systems,       \* vector<function>: the labels of the anonymous systems
    m_Graph,         \* name -> [Func, Dependencies, Dependents]; Func is a number,
                     \* the lists are sequences of names
    m_BatchedGraph,  \* vector<vector<string>>
    m_GraphDirty,    \* bool
    m_Tasks,         \* the pool's global queue: the names whose task waits in it
    workers,         \* worker -> the name whose task it runs, or NoTask
    run,             \* the running call of the scheduler:
                     \* [pc, op, batch, next, latch, pack, calls, error, adds]
    status,          \* name -> "idle", "running", "done" in the last call
    invoked,         \* label -> the functions called for it in the last call, in order
    \* ---- a stand-alone WorkStealingQueue (ThreadPool.hpp) ----
    queue,           \* [m_Top, m_Bottom, m_Tasks]
    owner,           \* the call of the owning thread: Push or Pop, its locals and pc
    thieves,         \* thief -> its Steal call, its locals and pc
    pushed,          \* Push calls begun
    pops,            \* Pop calls begun
    accepted,        \* the tasks whose Push returned true
    delivered,       \* task -> the number of Pop and Steal calls that returned it
    \* ---- one ThreadPool of its own (ThreadPool.hpp); its global queue is m_Tasks ----
    m_Queues,        \* worker -> its WorkStealingQueue
    m_Stop,          \* bool
    m_QueueMutex,    \* the thread that holds the mutex, or NoThread
    m_Workers,       \* worker -> the state of its thread in WorkerLoop: [pc, task, call, i]
    main,            \* the thread that owns the pool: [pc, submitted]
    enqueued,        \* the tasks a Submit call of the owning thread has put into m_Tasks
    executed,        \* task -> the number of times a worker has called it
    \* ---- a SerializationContext and a second World (Serialization.cpp) ----
    stream,          \* the words the last SerializeBinary wrote
    restored,        \* the World the last DeserializeBinary filled from stream
    \* ---- the scheduler's pool under nested calls (SystemScheduler.hpp, ThreadPool.hpp) ----
    m_Pool,          \* the ThreadPool of the scheduler: [m_Queues, m_Tasks]
    threads          \* thread -> what it does: [pc, task, next, latch, calls]

ssVars == <<set, ssOp>>
schedVars == <<m_Systems, m_Graph, m_BatchedGraph, m_GraphDirty, m_Tasks, workers, run,
               status, invoked>>
dequeVars == <<queue, owner, thieves, pushed, pops, accepted, delivered>>
graphVars == <<m_Systems, m_Graph, m_BatchedGraph, m_GraphDirty, workers, run, status, invoked>>
poolVars == <<m_Queues, m_Stop, m_QueueMutex, m_Workers, main, enqueued, executed>>
serVars == <<stream, restored>>
nestVars == <<m_Pool, threads>>
worldVars == <<m_EntitySignatures, m_EntityGenerations, m_FreeEntities,
               m_ComponentStores, m_StoresByID, m_OnRemovedTriggers,
               m_ComponentSignals, lastOp, events, ub>>
vars == <<set, ssOp, m_EntitySignatures, m_EntityGenerations, m_FreeEntities,
          m_ComponentStores, m_StoresByID, m_OnRemovedTriggers,
          m_ComponentSignals, lastOp, events, ub,
          m_Systems, m_Graph, m_BatchedGraph, m_GraphDirty, m_Tasks, workers, run,
          status, invoked,
          queue, owner, thieves, pushed, pops, accepted, delivered,
          m_Queues, m_Stop, m_QueueMutex, m_Workers, main, enqueued, executed,
          stream, restored, m_Pool, threads>>

(***************************************************************************)
(* Bounds of the model.                                                    *)
(***************************************************************************)
MaxGen == 1          \* generations an operation's identifier argument may carry: 0..MaxGen
MaxEntities == 1     \* entity slots of the World: indices 0..MaxEntities-1
MaxVal == 1          \* component values 0..MaxVal
MaxCallbacks == 1    \* callbacks registered on one World
MaxObservers == 3    \* callbacks registered on the World of the observer slice
MaxSetSize == 3      \* dense length of the stand-alone SparseSet
MaxViewEntities == 2 \* entity slots of the World of the view slice
MaxDeps == 1         \* length of the dependency list of an AddSystem call
MaxAdds == 4         \* AddSystem calls on one scheduler, of both overloads
MaxRuns == 2         \* RunGraph calls on one scheduler
MaxWorkers == 2      \* worker threads of the pool
MaxSystems == 3      \* anonymous systems of one scheduler
MaxFrame == 3        \* systems of the pack of a Frame call
Capacity == 2        \* slots of a WorkStealingQueue (1024 in the program)
MaxPushes == 3       \* Push calls on the stand-alone WorkStealingQueue
MaxPops == 2         \* Pop calls on the stand-alone WorkStealingQueue
MaxThieves == 2      \* threads that call Steal on the stand-alone WorkStealingQueue
MaxPoolWorkers == 2  \* worker threads of the ThreadPool of its own
MaxSubmits == 2      \* Submit calls of the thread that owns the ThreadPool
MaxNestWorkers == 2  \* worker threads of the scheduler's pool under nested calls
MaxPack == 3         \* systems of one Frame or RunParallel call under nested calls
MaxNestCalls == 2    \* calls the thread that owns the scheduler makes under nested calls

(***************************************************************************)
(* Program constants.                                                      *)
(***************************************************************************)
k_PageSize == 4096
k_MaskBits == 256
k_WordBits == 64
k_MaskWords == 4
\* std::numeric_limits<size_t>::max(): no dense index is negative
k_NullIndex == -1

(***************************************************************************)
(* EntityID: (generation << 32) | index, kept as the pair of its halves.   *)
(***************************************************************************)
MakeID(generation, index) == <<generation, index>>
GetIndex(entity) == entity[2]
GetGeneration(entity) == entity[1]
GetPageID(index) == index \div k_PageSize
GetPageOffset(index) == index % k_PageSize

Vals == 0..MaxVal
Gens == 0..MaxGen

(***************************************************************************)
(* Sequence helpers (std::vector).                                         *)
(***************************************************************************)
\* v.resize(n, fill): grows with fill, shrinks by truncation
Resize(v, n, fill) ==
    IF n <= Len(v) THEN SubSeq(v, 1, n)
    ELSE v \o [i \in 1..(n - Len(v)) |-> fill]
PopBack(v) == SubSeq(v, 1, Len(v) - 1)
\* v[i] = x for the 0-based index i
SetAt(v, i, x) == [v EXCEPT ![i + 1] = x]

(***************************************************************************)
(* SparseSet<Component>.  A page is [allocated, slot]: slot maps the       *)
(* offsets that hold a dense index; an offset outside its domain holds     *)
(* k_NullIndex (a fresh page is filled with k_NullIndex).                  *)
(***************************************************************************)
NoSlots == [o \in {} |-> 0]
NullPage == [allocated |-> FALSE, slot |-> NoSlots]
FreshPage == [allocated |-> TRUE, slot |-> NoSlots]
EmptySparseSet == [m_DenseData |-> <<>>, m_DenseToEntity |-> <<>>, m_SparsePages |-> <<>>]

\* m_SparsePages[pageId][pageOffset] of an allocated page
PageSlot(page, off) == IF off \in DOMAIN page.slot THEN page.slot[off] ELSE k_NullIndex
SetSlot(page, off, dense) ==
    [page EXCEPT !.slot =
        IF dense = k_NullIndex
        THEN [o \in (DOMAIN page.slot) \ {off} |-> page.slot[o]]
        ELSE [o \in (DOMAIN page.slot) \cup {off} |-> IF o = off THEN dense ELSE page.slot[o]]]
SetSparse(pages, index, dense) ==
    [pages EXCEPT ![GetPageID(index) + 1] = SetSlot(@, GetPageOffset(index), dense)]

\* the lookup Remove, Contains and Get share: page bounds, page pointer, slot
DenseIndexOf(s, index) ==
    LET pageId == GetPageID(index) IN
    IF pageId >= Len(s.m_SparsePages) \/ ~s.m_SparsePages[pageId + 1].allocated
    THEN k_NullIndex
    ELSE PageSlot(s.m_SparsePages[pageId + 1], GetPageOffset(index))

\* Insert's page preparation: resize the page vector, allocate the page
EnsurePage(pages, index) ==
    LET pageId == GetPageID(index)
        grown == IF pageId >= Len(pages) THEN Resize(pages, pageId + 1, NullPage) ELSE pages
    IN  IF ~grown[pageId + 1].allocated
        THEN [grown EXCEPT ![pageId + 1] = FreshPage]
        ELSE grown

\* an Insert that appends a row also when the index has one
Insert_AlwaysAppends(s, entity, component) ==
    LET index == GetIndex(entity)
        pages == EnsurePage(s.m_SparsePages, index)
    IN  [m_DenseData |-> Append(s.m_DenseData, component),
         m_DenseToEntity |-> Append(s.m_DenseToEntity, entity),
         m_SparsePages |-> SetSparse(pages, index, Len(s.m_DenseData))]

\* an Insert that overwrites the row of the index but keeps the stored identifier
Insert_KeepsKey(s, entity, component) ==
    LET index == GetIndex(entity)
        pages == EnsurePage(s.m_SparsePages, index)
        denseIndex == PageSlot(pages[GetPageID(index) + 1], GetPageOffset(index))
    IN  IF denseIndex # k_NullIndex
        THEN [m_DenseData |-> SetAt(s.m_DenseData, denseIndex, component),
              m_DenseToEntity |-> s.m_DenseToEntity,
              m_SparsePages |-> pages]
        ELSE [m_DenseData |-> Append(s.m_DenseData, component),
              m_DenseToEntity |-> Append(s.m_DenseToEntity, entity),
              m_SparsePages |-> SetSparse(pages, index, Len(s.m_DenseData))]

Insert(s, entity, component) ==
    LET index == GetIndex(entity)
        pages == EnsurePage(s.m_SparsePages, index)
        denseIndex == PageSlot(pages[GetPageID(index) + 1], GetPageOffset(index))
    IN  IF denseIndex # k_NullIndex
        THEN [m_DenseData |-> SetAt(s.m_DenseData, denseIndex, component),
              m_DenseToEntity |-> SetAt(s.m_DenseToEntity, denseIndex, entity),
              m_SparsePages |-> pages]
        ELSE [m_DenseData |-> Append(s.m_DenseData, component),
              m_DenseToEntity |-> Append(s.m_DenseToEntity, entity),
              m_SparsePages |-> SetSparse(pages, index, Len(s.m_DenseData))]

\* a guard that compares the index half only
RemoveMatches_IndexOnly(s, denseIndex, entity) ==
    GetIndex(s.m_DenseToEntity[denseIndex + 1]) = GetIndex(entity)

\* the guard of Remove: the stored identifier must equal the argument
RemoveMatches(s, denseIndex, entity) == s.m_DenseToEntity[denseIndex + 1] = entity

\* a swap that moves the last row but leaves its sparse slot as it was
SwapLast_StaleSparse(s, denseIndexToRemove, lastDenseIndex) ==
    [s EXCEPT !.m_DenseData = SetAt(@, denseIndexToRemove, s.m_DenseData[lastDenseIndex + 1]),
              !.m_DenseToEntity = SetAt(@, denseIndexToRemove, s.m_DenseToEntity[lastDenseIndex + 1])]

\* a swap that moves the last identifier but not its component
SwapLast_KeepsData(s, denseIndexToRemove, lastDenseIndex) ==
    LET lastEntity == s.m_DenseToEntity[lastDenseIndex + 1] IN
    [m_DenseData |-> s.m_DenseData,
     m_DenseToEntity |-> SetAt(s.m_DenseToEntity, denseIndexToRemove, lastEntity),
     m_SparsePages |-> SetSparse(s.m_SparsePages, GetIndex(lastEntity), denseIndexToRemove)]

\* the swap half of swap-and-pop, for denseIndexToRemove # lastDenseIndex
SwapLast(s, denseIndexToRemove, lastDenseIndex) ==
    LET lastEntity == s.m_DenseToEntity[lastDenseIndex + 1] IN
    [m_DenseData |-> SetAt(s.m_DenseData, denseIndexToRemove, s.m_DenseData[lastDenseIndex + 1]),
     m_DenseToEntity |-> SetAt(s.m_DenseToEntity, denseIndexToRemove, lastEntity),
     m_SparsePages |-> SetSparse(s.m_SparsePages, GetIndex(lastEntity), denseIndexToRemove)]

Remove(s, entity) ==
    LET index == GetIndex(entity)
        denseIndexToRemove == DenseIndexOf(s, index)
        lastDenseIndex == Len(s.m_DenseData) - 1
    IN  IF denseIndexToRemove = k_NullIndex THEN s
        ELSE IF ~RemoveMatches(s, denseIndexToRemove, entity) THEN s
        ELSE LET t == IF denseIndexToRemove # lastDenseIndex
                      THEN SwapLast(s, denseIndexToRemove, lastDenseIndex)
                      ELSE s
             IN  [m_DenseData |-> PopBack(t.m_DenseData),
                  m_DenseToEntity |-> PopBack(t.m_DenseToEntity),
                  m_SparsePages |-> SetSparse(t.m_SparsePages, index, k_NullIndex)]

Contains(s, entity) ==
    LET denseIndex == DenseIndexOf(s, GetIndex(entity)) IN
    denseIndex # k_NullIndex /\ s.m_DenseToEntity[denseIndex + 1] = entity

\* Get( entity ) of a contained key: the row its sparse slot names
Get(s, entity) == s.m_DenseData[DenseIndexOf(s, GetIndex(entity)) + 1]

Size(s) == Len(s.m_DenseData)

(***************************************************************************)
(* The stand-alone SparseSet: Insert and Remove with arbitrary keys, also  *)
(* repeated and stale ones, on two pages.                                  *)
(***************************************************************************)
SetIndices == {0, 1, k_PageSize}
SetKeys == {MakeID(g, i) : g \in 0..1, i \in SetIndices}

SSInit ==
    /\ set = EmptySparseSet
    /\ ssOp = [op |-> "none", entity |-> MakeID(0, 0), component |-> 0, size |-> 0,
               ret |-> FALSE]

SSInsert ==
    \E entity \in SetKeys, component \in Vals :
        /\ Len(set.m_DenseToEntity) < MaxSetSize
        /\ set' = Insert(set, entity, component)
        /\ ssOp' = [op |-> "Insert", entity |-> entity, component |-> component,
                    size |-> Size(set), ret |-> FALSE]

SSRemove ==
    \E entity \in SetKeys :
        /\ set' = Remove(set, entity)
        /\ ssOp' = [op |-> "Remove", entity |-> entity, component |-> 0,
                    size |-> Size(set), ret |-> FALSE]

SSContains ==
    \E entity \in SetKeys :
        /\ set' = set
        /\ ssOp' = [op |-> "Contains", entity |-> entity, component |-> 0,
                    size |-> Size(set), ret |-> Contains(set, entity)]


(***************************************************************************)
(* SparseSet<Component> for an empty Component (a tag): no m_DenseData.    *)
(***************************************************************************)
TagInsert(s, entity) ==
    LET index == GetIndex(entity)
        pages == EnsurePage(s.m_SparsePages, index)
        denseIndex == PageSlot(pages[GetPageID(index) + 1], GetPageOffset(index))
    IN  IF denseIndex # k_NullIndex
        THEN [s EXCEPT !.m_DenseToEntity = SetAt(@, denseIndex, entity),
                       !.m_SparsePages = pages]
        ELSE [s EXCEPT !.m_DenseToEntity = Append(@, entity),
                       !.m_SparsePages = SetSparse(pages, index, Len(s.m_DenseToEntity))]

TagRemove(s, entity) ==
    LET index == GetIndex(entity)
        denseIndexToRemove == DenseIndexOf(s, index)
        lastDenseIndex == Len(s.m_DenseToEntity) - 1
    IN  IF denseIndexToRemove = k_NullIndex THEN s
        ELSE IF s.m_DenseToEntity[denseIndexToRemove + 1] # entity THEN s
        ELSE LET lastEntity == s.m_DenseToEntity[lastDenseIndex + 1]
                 t == IF denseIndexToRemove # lastDenseIndex
                      THEN [s EXCEPT !.m_DenseToEntity = SetAt(@, denseIndexToRemove, lastEntity),
                                     !.m_SparsePages =
                                         SetSparse(@, GetIndex(lastEntity), denseIndexToRemove)]
                      ELSE s
             IN  [t EXCEPT !.m_DenseToEntity = PopBack(@),
                           !.m_SparsePages = SetSparse(@, index, k_NullIndex)]

TagSize(s) == Len(s.m_DenseToEntity)

(***************************************************************************)
(* ComponentMask: 256 bits in four words, kept as the set of its set bits. *)
(***************************************************************************)
EmptyMask == {}
MaskSet(mask, bit) == IF bit < k_MaskBits THEN mask \cup {bit} ELSE mask
MaskReset(mask, bit) == IF bit < k_MaskBits THEN mask \ {bit} ELSE mask
MaskTest(mask, bit) == IF bit >= k_MaskBits THEN FALSE ELSE bit \in mask
\* m_Words[word], as the bits it holds
MaskWord(mask, word) == {b \in mask : b \div k_WordBits = word}
\* __builtin_ctzll(w): the lowest set bit of a nonzero word
LowestBit(wordBits) == CHOOSE b \in wordBits : \A c \in wordBits : b <= c

(***************************************************************************)
(* Component types.  ComponentID<T>::Value() hands out the ids 0, 1, ...   *)
(* in the order the types are first used: Position, then Tag.  Late is a   *)
(* type first used when k_MaskBits types have had their id: it gets the    *)
(* first id beyond the bits of a ComponentMask.                            *)
(***************************************************************************)
CompTypes == {"Position", "Tag"}
AllTypes == CompTypes \cup {"Late"}
IsTag(T) == T = "Tag"
ComponentID(T) ==
    CASE T = "Position" -> 0
      [] T = "Tag" -> 1
      [] OTHER -> k_MaskBits
TypeOfID(i) == CHOOSE T \in AllTypes : ComponentID(T) = i
\* the one static instance SparseSet<Tag>::Get returns
TagValue == 0
\* what a read through a reference to no live row yields, until the call ends
Undef == 0 - 1

StoreInsert(T, s, entity, component) ==
    IF IsTag(T) THEN TagInsert(s, entity) ELSE Insert(s, entity, component)
StoreRemove(T, s, entity) == IF IsTag(T) THEN TagRemove(s, entity) ELSE Remove(s, entity)
StoreSize(T, s) == IF IsTag(T) THEN TagSize(s) ELSE Size(s)

(***************************************************************************)
(* The World.  A world record w carries the members of World, plus ev, the *)
(* callbacks invoked so far in the running call, and ub, whether the call  *)
(* has indexed m_EntityGenerations beyond its end.  ug is what such a read *)
(* yields in this call.  The behaviour of the program after such an access *)
(* is undefined: the model follows it to the end of the call, no further.  *)
(***************************************************************************)
Events == {"Added", "Removed", "Modified"}
\* what a registered callback does: record the event; or record it and, unless
\* it is already running inside its own DestroyEntity, destroy the entity
Behaviours == {"record", "destroy"}
EmptySignals == [onAdded |-> <<>>, onRemoved |-> <<>>, onModified |-> <<>>]

GetStore(w, T) ==
    IF T \in DOMAIN w.m_ComponentStores THEN w
    ELSE [w EXCEPT !.m_ComponentStores =
             [U \in (DOMAIN @) \cup {T} |-> IF U = T THEN EmptySparseSet ELSE @[U]]]

GenerationAt(w, index, ug) ==
    IF index < Len(w.m_EntityGenerations) THEN w.m_EntityGenerations[index + 1] ELSE ug

\* m_EntityGenerations[index] = g; a store beyond the end is no part of the vector
SetGeneration(w, index, g) ==
    IF index < Len(w.m_EntityGenerations)
    THEN [w EXCEPT !.m_EntityGenerations = SetAt(@, index, g)]
    ELSE w

\* a liveness test that looks at the index only
IsAlive_IgnoresGeneration(w, id, ug) == GetIndex(id) < Len(w.m_EntitySignatures)

IsAlive(w, id, ug) ==
    /\ GetIndex(id) < Len(w.m_EntitySignatures)
    /\ GenerationAt(w, GetIndex(id), ug) = GetGeneration(id)

\* IsAlive( id ) reads m_EntityGenerations[index] beyond the end
IsAliveOutOfBounds(w, id) ==
    /\ GetIndex(id) < Len(w.m_EntitySignatures)
    /\ GetIndex(id) >= Len(w.m_EntityGenerations)
MarkAccess(w, outOfBounds) == IF outOfBounds THEN [w EXCEPT !.ub = TRUE] ELSE w

HasComponent(w, id, T) ==
    IF GetIndex(id) >= Len(w.m_EntitySignatures) THEN FALSE
    ELSE MaskTest(w.m_EntitySignatures[GetIndex(id) + 1], ComponentID(T))

\* the reference GetComponent<T>(id) returns: the dense slot of id's index
\* (Get asserts Contains only in debug builds), or the tag's static instance
ComponentRef(w, T, id) ==
    IF IsTag(T) THEN k_NullIndex ELSE DenseIndexOf(w.m_ComponentStores[T], GetIndex(id))

\* a read through that reference
ReadRef(w, T, ref) ==
    IF IsTag(T) THEN TagValue
    ELSE IF ref # k_NullIndex /\ ref < Len(w.m_ComponentStores[T].m_DenseData)
         THEN w.m_ComponentStores[T].m_DenseData[ref + 1]
         ELSE Undef

\* a write through that reference; a write to no live row changes no row
WriteRef(w, T, ref, v) ==
    IF IsTag(T) THEN w
    ELSE IF ref # k_NullIndex /\ ref < Len(w.m_ComponentStores[T].m_DenseData)
         THEN [w EXCEPT !.m_ComponentStores[T].m_DenseData = SetAt(@, ref, v)]
         ELSE w

SignalList(signals, event) ==
    CASE event = "Added" -> signals.onAdded
      [] event = "Removed" -> signals.onRemoved
      [] event = "Modified" -> signals.onModified

\* the component types U for which HasComponent<U>( id ) answers true in w,
\* and those whose store contains id
HasOf(w, id) == {U \in CompTypes : HasComponent(w, id, U)}
StoresOf(w, id) ==
    {U \in CompTypes : U \in DOMAIN w.m_ComponentStores /\ Contains(w.m_ComponentStores[U], id)}

RECURSIVE DestroyEntity(_, _, _, _)
RECURSIVE RunCallbacks(_, _, _, _, _, _, _, _, _)

\* a dispatch that invokes the first callback of the list and no other
RunCallbacks_FirstOnly(w, T, id, event, list, i, ref, depth, ug) ==
    IF i > Len(list) THEN w
    ELSE [w EXCEPT !.ev = Append(@, [event |-> event, type |-> T, id |-> id,
                                     value |-> ReadRef(w, T, ref), cb |-> i, depth |-> depth,
                                     has |-> HasComponent(w, id, T),
                                     contains |-> Contains(w.m_ComponentStores[T], id),
                                     hasOf |-> HasOf(w, id),
                                     storesOf |-> StoresOf(w, id)])]

\* for ( auto& cb : list ) cb( id, component ), from the i-th callback on.
\* The log entry of a callback holds what it is handed (id, the component's
\* value) and what HasComponent<T>( id ) and the store's Contains( id ) would
\* answer while it runs, for T and (hasOf, storesOf) for every component type.
RunCallbacks(w, T, id, event, list, i, ref, depth, ug) ==
    IF i > Len(list) THEN w
    ELSE LET seen == [event |-> event, type |-> T, id |-> id, value |-> ReadRef(w, T, ref),
                      cb |-> i, depth |-> depth,
                      has |-> HasComponent(w, id, T),
                      contains |-> Contains(w.m_ComponentStores[T], id),
                      hasOf |-> HasOf(w, id),
                      storesOf |-> StoresOf(w, id)]
             w1 == [w EXCEPT !.ev = Append(@, seen)]
             w2 == IF list[i] = "destroy" /\ depth = 0
                   THEN DestroyEntity(w1, id, depth + 1, ug)
                   ELSE w1
         IN  RunCallbacks(w2, T, id, event, list, i + 1, ref, depth, ug)

\* a switch without its breaks: the case of the event falls through to Modified
TriggerEvent_FallsThrough(w, T, id, event, depth, ug) ==
    IF T \notin DOMAIN w.m_ComponentSignals THEN w
    ELSE LET w1 == GetStore(w, T)
             ref == ComponentRef(w1, T, id)
             w2 == RunCallbacks(w1, T, id, event, SignalList(w.m_ComponentSignals[T], event), 1,
                                ref, depth, ug)
         IN  IF event = "Modified" THEN w2
             ELSE RunCallbacks(w2, T, id, "Modified", w.m_ComponentSignals[T].onModified, 1,
                               ref, depth, ug)

TriggerEvent(w, T, id, event, depth, ug) ==
    IF T \notin DOMAIN w.m_ComponentSignals THEN w
    ELSE LET w1 == GetStore(w, T)
         IN  RunCallbacks(w1, T, id, event, SignalList(w.m_ComponentSignals[T], event), 1,
                          ComponentRef(w1, T, id), depth, ug)

\* a visit that empties the whole store of the component
DestroyVisit_ClearsStore(w, id, i, depth, ug) ==
    LET w1 == IF i \in w.m_OnRemovedTriggers
              THEN TriggerEvent(w, TypeOfID(i), id, "Removed", depth, ug)
              ELSE w
    IN  IF i \in w1.m_StoresByID
        THEN [w1 EXCEPT !.m_ComponentStores[TypeOfID(i)] = EmptySparseSet]
        ELSE w1

\* the body DestroyEntity hands to ForEachSetBit, for the set bit i
DestroyVisit(w, id, i, depth, ug) ==
    LET w1 == IF i \in w.m_OnRemovedTriggers
              THEN TriggerEvent(w, TypeOfID(i), id, "Removed", depth, ug)
              ELSE w
    IN  IF i \in w1.m_StoresByID
        THEN [w1 EXCEPT !.m_ComponentStores[TypeOfID(i)] = StoreRemove(TypeOfID(i), @, id)]
        ELSE w1

\* ForEachSetBit: the inner loop over one word, a copy taken when the loop starts
RECURSIVE ForEachBitOfWord(_, _, _, _, _)
ForEachBitOfWord(w, id, wordBits, depth, ug) ==
    IF wordBits = {} THEN w
    ELSE LET bit == LowestBit(wordBits)
         IN  ForEachBitOfWord(DestroyVisit(w, id, bit, depth, ug), id,
                              wordBits \ {bit}, depth, ug)

\* ForEachSetBit: the outer loop over the four words
RECURSIVE ForEachSetBit(_, _, _, _, _)
ForEachSetBit(w, id, word, depth, ug) ==
    IF word = k_MaskWords THEN w
    ELSE ForEachSetBit(
             ForEachBitOfWord(w, id, MaskWord(w.m_EntitySignatures[GetIndex(id) + 1], word),
                              depth, ug),
             id, word + 1, depth, ug)

\* what DestroyEntity does after the loop: reset, increment, push
DestroyFinish(w, id, ug) ==
    LET index == GetIndex(id)
        w1 == [w EXCEPT !.m_EntitySignatures[index + 1] = EmptyMask]
        w2 == SetGeneration(w1, index, GenerationAt(w1, index, ug) + 1)
    IN  [w2 EXCEPT !.m_FreeEntities =
            Append(@, MakeID(GenerationAt(w1, index, ug) + 1, index))]

DestroyEntity(w, id, depth, ug) ==
    LET w0 == MarkAccess(w, IsAliveOutOfBounds(w, id)) IN
    IF IsAlive(w0, id, ug)
    THEN DestroyFinish(ForEachSetBit(w0, id, 0, depth, ug), id, ug)
    ELSE w0


\* CreateEntity(): [w, ret]
CreateEntity(w, ug) ==
    IF w.m_FreeEntities # <<>>
    THEN LET id == w.m_FreeEntities[Len(w.m_FreeEntities)]
             index == GetIndex(id)
             generation == GenerationAt(w, index, ug)
         IN  [w |-> MarkAccess([w EXCEPT !.m_FreeEntities = PopBack(@)],
                                index >= Len(w.m_EntityGenerations)),
              ret |-> MakeID(generation, index)]
    ELSE LET index == Len(w.m_EntitySignatures)
         IN  [w |-> [w EXCEPT !.m_EntitySignatures = Append(@, EmptyMask),
                              !.m_EntityGenerations = Append(@, 0)],
              ret |-> MakeID(0, index)]

\* CreateEntitiesBulk, the loop that drains the free list: [w, entities, count]
RECURSIVE BulkDrain(_, _, _, _)
BulkDrain(w, entities, count, ug) ==
    IF count > 0 /\ w.m_FreeEntities # <<>>
    THEN LET c == CreateEntity(w, ug)
         IN  BulkDrain(c.w, Append(entities, c.ret), count - 1, ug)
    ELSE [w |-> w, entities |-> entities, count |-> count]

\* CreateEntitiesBulk, the tail that extends both vectors
BulkExtend(w, entities, count) ==
    IF count > 0
    THEN LET startIndex == Len(w.m_EntitySignatures)
         IN  [w |-> [w EXCEPT !.m_EntitySignatures = Resize(@, startIndex + count, EmptyMask),
                              !.m_EntityGenerations = Resize(@, startIndex + count, 0)],
              ret |-> entities \o [i \in 1..count |-> MakeID(0, startIndex + i - 1)]]
    ELSE [w |-> w, ret |-> entities]

CreateEntitiesBulk(w, count, ug) ==
    LET d == BulkDrain(w, <<>>, count, ug)
    IN  BulkExtend(d.w, d.entities, d.count)

\* m_FreeEntities.erase( remove_if( same index ) )
RECURSIVE EraseIndex(_, _)
EraseIndex(free, index) ==
    IF free = <<>> THEN <<>>
    ELSE IF GetIndex(Head(free)) = index THEN EraseIndex(Tail(free), index)
         ELSE <<Head(free)>> \o EraseIndex(Tail(free), index)

\* CreateEntity( EntityID id ): [w, ret]
CreateEntityWithID(w, id, ug) ==
    LET index == GetIndex(id)
        generation == GetGeneration(id)
        w0 == IF index >= Len(w.m_EntitySignatures)
              THEN [w EXCEPT !.m_EntitySignatures = Resize(@, index + 1, EmptyMask),
                             !.m_EntityGenerations = Resize(@, index + 1, 0)]
              ELSE w
        w1 == MarkAccess(w0, IsAliveOutOfBounds(w0, id))
    IN  IF IsAlive(w1, id, ug) THEN [w |-> w1, ret |-> id]
        ELSE LET w2 == [w1 EXCEPT !.m_FreeEntities = EraseIndex(@, index)]
                 w3 == SetGeneration(w2, index, generation)
             IN  [w |-> [w3 EXCEPT !.m_EntitySignatures[index + 1] = EmptyMask],
                  ret |-> id]

\* EnsureSignalStorage<T>: install the closure that fires Removed for T
EnsureSignalStorage(w, T) ==
    [w EXCEPT !.m_OnRemovedTriggers = @ \cup {ComponentID(T)}]

AddComponent(w, id, T, component, ug) ==
    LET index == GetIndex(id)
        w1 == IF index >= Len(w.m_EntitySignatures)
              THEN [w EXCEPT !.m_EntitySignatures = Resize(@, index + 1, EmptyMask)]
              ELSE w
        w2 == GetStore(w1, T)
        w3 == [w2 EXCEPT !.m_ComponentStores[T] = StoreInsert(T, @, id, component)]
        compId == ComponentID(T)
        w4 == [w3 EXCEPT !.m_EntitySignatures[index + 1] = MaskSet(@, compId),
                         !.m_StoresByID = @ \cup {compId}]
    IN  TriggerEvent(EnsureSignalStorage(w4, T), T, id, "Added", 0, ug)

\* a RemoveComponent that tests neither the index nor the signature bit
RemoveComponent_Unguarded(w, id, T, ug) ==
    LET index == GetIndex(id)
        w1 == TriggerEvent(w, T, id, "Removed", 0, ug)
        w2 == GetStore(w1, T)
        w3 == [w2 EXCEPT !.m_ComponentStores[T] = StoreRemove(T, @, id)]
    IN  IF index < Len(w3.m_EntitySignatures)
        THEN [w3 EXCEPT !.m_EntitySignatures[index + 1] = MaskReset(@, ComponentID(T))]
        ELSE w3

RemoveComponent(w, id, T, ug) ==
    LET index == GetIndex(id) IN
    IF index < Len(w.m_EntitySignatures) /\ HasComponent(w, id, T)
    THEN LET w1 == TriggerEvent(w, T, id, "Removed", 0, ug)
             w2 == GetStore(w1, T)
             w3 == [w2 EXCEPT !.m_ComponentStores[T] = StoreRemove(T, @, id)]
         IN  [w3 EXCEPT !.m_EntitySignatures[index + 1] = MaskReset(@, ComponentID(T))]
    ELSE w

\* the function handed to PatchComponent, on the values of the model:
\* []( T& c ) { c.value++; } for v = 1, one that leaves c as it is for v = 0
ApplyPatch(c, v) == (c + v) % (MaxVal + 1)

\* a PatchComponent that fires Modified before it calls func
PatchComponent_FiresFirst(w, id, T, v, ug) ==
    IF HasComponent(w, id, T)
    THEN LET w1 == TriggerEvent(GetStore(w, T), T, id, "Modified", 0, ug)
             ref == ComponentRef(w1, T, id)
         IN  WriteRef(w1, T, ref, ApplyPatch(ReadRef(w1, T, ref), v))
    ELSE w

PatchComponent(w, id, T, v, ug) ==
    IF HasComponent(w, id, T)
    THEN LET w1 == GetStore(w, T)
             ref == ComponentRef(w1, T, id)
             w2 == WriteRef(w1, T, ref, ApplyPatch(ReadRef(w1, T, ref), v))
         IN  TriggerEvent(w2, T, id, "Modified", 0, ug)
    ELSE w

\* GetSignals<T>: the entry of m_ComponentSignals, made on first use
GetSignals(w, T) ==
    IF T \in DOMAIN w.m_ComponentSignals THEN w
    ELSE [w EXCEPT !.m_ComponentSignals =
             [U \in (DOMAIN @) \cup {T} |-> IF U = T THEN EmptySignals ELSE @[U]]]

OnEvent(w, T, event, callback) ==
    LET w1 == GetSignals(EnsureSignalStorage(w, T), T) IN
    CASE event = "Added" -> [w1 EXCEPT !.m_ComponentSignals[T].onAdded = Append(@, callback)]
      [] event = "Removed" -> [w1 EXCEPT !.m_ComponentSignals[T].onRemoved = Append(@, callback)]
      [] event = "Modified" -> [w1 EXCEPT !.m_ComponentSignals[T].onModified = Append(@, callback)]

(***************************************************************************)
(* View<Components...>.  Cs is the sequence of the Components.  Each hands *)
(* func the components only; ret is the sequence of the driving store's    *)
(* keys func was called for, in the order of the calls.                    *)
(***************************************************************************)
MaskContains(mask, other) == (mask \cap other) = other

\* the View constructor: m_ComponentMask.Set( id ) for every component
RECURSIVE ViewMask(_)
ViewMask(Cs) ==
    IF Cs = <<>> THEN EmptyMask ELSE MaskSet(ViewMask(Tail(Cs)), ComponentID(Head(Cs)))

\* std::tie( GetStore < Components >() ... ): every store exists afterwards
RECURSIVE GetStores(_, _)
GetStores(w, Cs) ==
    IF Cs = <<>> THEN w ELSE GetStores(GetStore(w, Head(Cs)), Tail(Cs))

\* findSmallest, from the i-th store on: the position in Cs of the first store
\* whose Size() is below every Size() before it; smallest = 0 is the null
\* pointer, minSize then the maximum of size_t
RECURSIVE FindSmallest(_, _, _, _, _)
FindSmallest(w, Cs, i, minSize, smallest) ==
    IF i > Len(Cs) THEN smallest
    ELSE LET size == StoreSize(Cs[i], w.m_ComponentStores[Cs[i]])
         IN  IF smallest = 0 \/ size < minSize
             THEN FindSmallest(w, Cs, i + 1, size, i)
             ELSE FindSmallest(w, Cs, i + 1, minSize, smallest)

\* Get( entity ) of a store other than the driving one reads a slot that holds
\* no dense index: the reference func is handed refers to no row
ReadsNoRow(w, Cs, driving, entity) ==
    \E k \in DOMAIN Cs :
        /\ k # driving
        /\ ~IsTag(Cs[k])
        /\ DenseIndexOf(w.m_ComponentStores[Cs[k]], GetIndex(entity)) = k_NullIndex

\* the loop over the driving store's entities, from the i-th on: [w, ret]
RECURSIVE CallEach(_, _, _, _, _)
CallEach(w, Cs, driving, i, ret) ==
    LET entities == w.m_ComponentStores[Cs[driving]].m_DenseToEntity IN
    IF i > Len(entities) THEN [w |-> w, ret |-> ret]
    ELSE LET entity == entities[i]
             index == GetIndex(entity)
         IN  IF MaskContains(w.m_EntitySignatures[index + 1], ViewMask(Cs))
             THEN CallEach(MarkAccess(w, ReadsNoRow(w, Cs, driving, entity)), Cs, driving,
                           i + 1, Append(ret, entity))
             ELSE CallEach(w, Cs, driving, i + 1, ret)

Each(w, Cs) ==
    IF Cs = <<>> THEN [w |-> w, ret |-> <<>>]
    ELSE LET w1 == GetStores(w, Cs)
         IN  CallEach(w1, Cs, FindSmallest(w1, Cs, 1, 0, 0), 1, <<>>)

(***************************************************************************)
(* The World as a state machine: one action per call of its API.  The      *)
(* actions draw their identifiers from the slots 0..slots-1 with the       *)
(* generations 0..MaxGen (live, stale and never-created ones alike) and    *)
(* their component types from types.                                       *)
(***************************************************************************)
IdsOf(slots) == {MakeID(g, i) : g \in Gens, i \in 0..(slots - 1)}
NoID == MakeID(0, 0)

\* the World of the current state, no callback invoked yet
W == [m_EntitySignatures |-> m_EntitySignatures,
      m_EntityGenerations |-> m_EntityGenerations,
      m_FreeEntities |-> m_FreeEntities,
      m_ComponentStores |-> m_ComponentStores,
      m_StoresByID |-> m_StoresByID,
      m_OnRemovedTriggers |-> m_OnRemovedTriggers,
      m_ComponentSignals |-> m_ComponentSignals,
      ev |-> <<>>,
      ub |-> FALSE]

\* what an out-of-bounds read of m_EntityGenerations[index] may yield
GenerationReads(index) ==
    IF index >= Len(m_EntityGenerations) THEN Gens ELSE {0}

\* what the reads through references to no live row may yield
ValueReads(ev) == IF \E k \in DOMAIN ev : ev[k].value = Undef THEN Vals ELSE {0}
Resolve(ev, uv) ==
    [k \in DOMAIN ev |-> IF ev[k].value = Undef THEN [ev[k] EXCEPT !.value = uv] ELSE ev[k]]

\* the record of a call; had is what HasComponent<T>( id ) answered when a
\* component operation was called, view the Components of the View of an Each
Call(op, id, T, value, ret) ==
    [op |-> op, id |-> id, type |-> T, value |-> value, ret |-> ret, view |-> <<>>,
     had |-> /\ op \in {"AddComponent", "RemoveComponent", "PatchComponent"}
             /\ HasComponent(W, id, T)]

\* the call returns: w becomes the World, call the last call
Return(w, call) ==
    /\ ~ub
    /\ ub' = w.ub
    /\ m_EntitySignatures' = w.m_EntitySignatures
    /\ m_EntityGenerations' = w.m_EntityGenerations
    /\ m_FreeEntities' = w.m_FreeEntities
    /\ m_ComponentStores' = w.m_ComponentStores
    /\ m_StoresByID' = w.m_StoresByID
    /\ m_OnRemovedTriggers' = w.m_OnRemovedTriggers
    /\ m_ComponentSignals' = w.m_ComponentSignals
    /\ lastOp' = call
    /\ \E uv \in ValueReads(w.ev) : events' = Resolve(w.ev, uv)
    /\ UNCHANGED <<ssVars, schedVars, dequeVars, poolVars, serVars, nestVars>>

NumCallbacks ==
    LET n(T) == IF T \in DOMAIN m_ComponentSignals
                THEN Len(m_ComponentSignals[T].onAdded) + Len(m_ComponentSignals[T].onRemoved)
                     + Len(m_ComponentSignals[T].onModified)
                ELSE 0
    IN  n("Position") + n("Tag") + n("Late")

WorldInit ==
    /\ m_EntitySignatures = <<>>
    /\ m_EntityGenerations = <<>>
    /\ m_FreeEntities = <<>>
    /\ m_ComponentStores = [T \in {} |-> EmptySparseSet]
    /\ m_StoresByID = {}
    /\ m_OnRemovedTriggers = {}
    /\ m_ComponentSignals = [T \in {} |-> EmptySignals]
    /\ lastOp = Call("none", NoID, "Position", 0, <<>>)
    /\ events = <<>>
    /\ ub = FALSE

DoCreateEntity(slots) ==
    /\ m_FreeEntities # <<>> \/ Len(m_EntitySignatures) < slots
    /\ \E ug \in (IF m_FreeEntities # <<>>
                  THEN GenerationReads(GetIndex(m_FreeEntities[Len(m_FreeEntities)]))
                  ELSE {0}) :
        LET c == CreateEntity(W, ug)
        IN  Return(c.w, Call("CreateEntity", NoID, "Position", 0, <<c.ret>>))

DoCreateEntitiesBulk(slots) ==
    \E count \in 0..(slots + 1) :
        /\ Len(m_EntitySignatures) + count - Len(m_FreeEntities) <= slots
        /\ LET c == CreateEntitiesBulk(W, count, 0)
           IN  Return(c.w, Call("CreateEntitiesBulk", NoID, "Position", count, c.ret))

DoCreateEntityWithID(slots) ==
    \E id \in IdsOf(slots) : \E ug \in GenerationReads(GetIndex(id)) :
        LET c == CreateEntityWithID(W, id, ug)
        IN  Return(c.w, Call("CreateEntityWithID", id, "Position", 0, <<c.ret>>))

DoDestroyEntity(slots) ==
    \E id \in IdsOf(slots) : \E ug \in GenerationReads(GetIndex(id)) :
        Return(DestroyEntity(W, id, 0, ug), Call("DestroyEntity", id, "Position", 0, <<>>))

DoAddComponent(slots, types) ==
    \E id \in IdsOf(slots), T \in types, component \in Vals :
        \E ug \in GenerationReads(GetIndex(id)) :
            /\ IsTag(T) => component = TagValue
            /\ Return(AddComponent(W, id, T, component, ug),
                      Call("AddComponent", id, T, component, <<>>))

DoRemoveComponent(slots, types) ==
    \E id \in IdsOf(slots), T \in types : \E ug \in GenerationReads(GetIndex(id)) :
        Return(RemoveComponent(W, id, T, ug), Call("RemoveComponent", id, T, 0, <<>>))

DoPatchComponent(slots, types) ==
    \E id \in IdsOf(slots), T \in types, v \in Vals : \E ug \in GenerationReads(GetIndex(id)) :
        /\ IsTag(T) => v = TagValue
        /\ Return(PatchComponent(W, id, T, v, ug), Call("PatchComponent", id, T, v, <<>>))

\* HasComponent<T>( id ): the answer is the ret of the call, <<>> for false
DoHasComponent(slots, types) ==
    \E id \in IdsOf(slots), T \in types :
        Return(W, Call("HasComponent", id, T, 0,
                       IF HasComponent(W, id, T) THEN <<id>> ELSE <<>>))

\* GetView < Components... >().Each( func ); ret is the keys func was called for
DoEach(views) ==
    \E Cs \in views :
        LET c == Each(W, Cs)
        IN  Return(c.w, [Call("Each", NoID, "Position", 0, c.ret) EXCEPT !.view = Cs])

\* a callback that destroys its entity is registered for Removed
DoOnEvent(types, maxCallbacks) ==
    \E T \in types, event \in Events, callback \in Behaviours :
        /\ NumCallbacks < maxCallbacks
        /\ callback = "destroy" => event = "Removed"
        /\ Return(OnEvent(W, T, event, callback), Call("OnEvent", NoID, T, 0, <<>>))

WorldNext(slots, types, maxCallbacks) ==
    \/ DoCreateEntity(slots)
    \/ DoCreateEntitiesBulk(slots)
    \/ DoCreateEntityWithID(slots)
    \/ DoDestroyEntity(slots)
    \/ DoAddComponent(slots, types)
    \/ DoRemoveComponent(slots, types)
    \/ DoPatchComponent(slots, types)
    \/ DoOnEvent(types, maxCallbacks)

(***************************************************************************)
(* SystemScheduler: the named graph.  A graph is a function from the names *)
(* added so far to their nodes.  The order in which a loop over the        *)
(* unordered_map m_Graph meets the nodes is not fixed by the program:      *)
(* order is the sequence of names such a loop yields.                      *)
(***************************************************************************)
\* how many times x occurs in the sequence s
OccurrencesIn(s, x) == Cardinality({i \in DOMAIN s : s[i] = x})

Systems == {"A", "B", "C"}
NoTask == "none"
DepLists == UNION {[1..n -> Systems] : n \in 0..MaxDeps}
Orders(S) == {o \in [1..Cardinality(S) -> S] : \A i, j \in DOMAIN o : i # j => o[i] # o[j]}

\* m_Graph[ name ] = node: the node is new or replaces the one of that name
PutNode(graph, name, node) ==
    [n \in (DOMAIN graph) \cup {name} |-> IF n = name THEN node ELSE graph[n]]

\* for ( dep : m_Graph[ name ].Dependencies ), from the i-th dependency on
RECURSIVE UpdateDependents(_, _, _)
UpdateDependents(graph, name, i) ==
    IF i > Len(graph[name].Dependencies) THEN graph
    ELSE LET dep == graph[name].Dependencies[i]
             g == IF dep \in DOMAIN graph
                  THEN [graph EXCEPT ![dep].Dependents = Append(@, name)]
                  ELSE graph
         IN  UpdateDependents(g, name, i + 1)

\* for ( dep : otherNode.Dependencies ) if ( dep == name ) ..., from the i-th on
RECURSIVE RealizeEdges(_, _, _, _)
RealizeEdges(graph, name, otherName, i) ==
    IF i > Len(graph[otherName].Dependencies) THEN graph
    ELSE LET g == IF graph[otherName].Dependencies[i] = name
                  THEN [graph EXCEPT ![name].Dependents = Append(@, otherName)]
                  ELSE graph
         IN  RealizeEdges(g, name, otherName, i + 1)

\* for ( auto& [ otherName, otherNode ] : m_Graph ), from the k-th node on
RECURSIVE ScanOthers(_, _, _, _)
ScanOthers(graph, name, order, k) ==
    IF k > Len(order) THEN graph
    ELSE IF order[k] = name THEN ScanOthers(graph, name, order, k + 1)
    ELSE ScanOthers(RealizeEdges(graph, name, order[k], 1), name, order, k + 1)

AddSystem(graph, name, system, dependencies, order) ==
    LET node == [Func |-> system, Dependencies |-> dependencies, Dependents |-> <<>>]
        g1 == PutNode(graph, name, node)
        g2 == UpdateDependents(g1, name, 1)
    IN  ScanOthers(g2, name, order, 1)

\* RebuildGraph, the loop over the Dependents of the node name, from the i-th
\* on: [inDegree, nextBatch]
RECURSIVE Release(_, _, _, _, _)
Release(graph, name, i, inDegree, nextBatch) ==
    IF i > Len(graph[name].Dependents) THEN [inDegree |-> inDegree, nextBatch |-> nextBatch]
    ELSE LET dependent == graph[name].Dependents[i]
             d == [inDegree EXCEPT ![dependent] = @ - 1]
         IN  Release(graph, name, i + 1, d,
                     IF d[dependent] = 0 THEN Append(nextBatch, dependent) ELSE nextBatch)

\* RebuildGraph, the loop over currentBatch, from the k-th name on
RECURSIVE ReleaseBatch(_, _, _, _, _)
ReleaseBatch(graph, currentBatch, k, inDegree, nextBatch) ==
    IF k > Len(currentBatch) THEN [inDegree |-> inDegree, nextBatch |-> nextBatch]
    ELSE LET r == Release(graph, currentBatch[k], 1, inDegree, nextBatch)
         IN  ReleaseBatch(graph, currentBatch, k + 1, r.inDegree, r.nextBatch)

\* RebuildGraph, while ( !currentBatch.empty() ): the batches
RECURSIVE Layers(_, _, _, _)
Layers(graph, currentBatch, inDegree, batches) ==
    IF currentBatch = <<>> THEN batches
    ELSE LET r == ReleaseBatch(graph, currentBatch, 1, inDegree, <<>>)
         IN  Layers(graph, r.nextBatch, r.inDegree, Append(batches, currentBatch))

RECURSIVE TotalNodes(_)
TotalNodes(batches) == IF batches = <<>> THEN 0 ELSE Len(Head(batches)) + TotalNodes(Tail(batches))

\* RebuildGraph: [batches, throws]
RebuildGraph(graph, order) ==
    LET inDegree == [n \in DOMAIN graph |-> Len(graph[n].Dependencies)]
        first == SelectSeq(order, LAMBDA n : inDegree[n] = 0)
        batches == Layers(graph, first, inDegree, <<>>)
    IN  [batches |-> batches, throws |-> TotalNodes(batches) < Cardinality(DOMAIN graph)]

(***************************************************************************)
(* The scheduler as a state machine.  AddSystem is one step.  RunGraph is  *)
(* a step that rebuilds the batches (and throws, or goes on), and then one *)
(* step per system run inline, per task submitted to the pool and per      *)
(* latch passed; a worker takes a task from the pool's queue (the tasks of *)
(* a thread that is no worker go to the global queue, first in first out)  *)
(* in one step and finishes it in another.                                 *)
(***************************************************************************)
Workers == 1..MaxWorkers

\* the anonymous systems, in the order of their AddSystem calls, and the
\* systems of the pack of a Frame call
Anonymous == [i \in 1..MaxSystems |-> "S" \o ToString(i)]
FramePack == [i \in 1..MaxFrame |-> "F" \o ToString(i)]
Labels ==
    Systems \cup {Anonymous[i] : i \in DOMAIN Anonymous}
            \cup {FramePack[i] : i \in DOMAIN FramePack}

\* the function registered under the label: the Func of the node of a named
\* system (the number of the AddSystem call of that name), 0 for the others
FuncOf(graph, label) == IF label \in DOMAIN graph THEN graph[label].Func ELSE 0

\* std::latch latch( n ) without its last count: wait() returns one count early
LatchOf_OneShort(tasks) == Len(tasks) - 1

\* std::latch latch( n ): the count of the latch made for the tasks
LatchOf(tasks) == Len(tasks)

SchedInit ==
    /\ m_Systems = <<>>
    /\ m_Graph = [n \in {} |-> [Func |-> 0, Dependencies |-> <<>>, Dependents |-> <<>>]]
    /\ m_BatchedGraph = <<>>
    /\ m_GraphDirty = TRUE
    /\ m_Tasks = <<>>
    /\ workers = [wk \in Workers |-> NoTask]
    /\ run = [pc |-> "idle", op |-> "none", batch |-> 0, next |-> 0, latch |-> 0,
              pack |-> <<>>, calls |-> 0, error |-> FALSE, adds |-> 0]
    /\ status = [n \in {} |-> "idle"]
    /\ invoked = [l \in Labels |-> <<>>]

\* AddSystem( system ): the anonymous one
DoAddAnonymous ==
    /\ run.pc = "idle"
    /\ run.adds < MaxAdds
    /\ Len(m_Systems) < MaxSystems
    /\ m_Systems' = Append(m_Systems, Anonymous[Len(m_Systems) + 1])
    /\ run' = [run EXCEPT !.adds = @ + 1]
    /\ UNCHANGED <<m_Graph, m_BatchedGraph, m_GraphDirty, m_Tasks, workers, status, invoked>>

DoAddSystem ==
    /\ run.pc = "idle"
    /\ run.adds < MaxAdds
    /\ \E name \in Systems, dependencies \in DepLists :
         \E order \in Orders((DOMAIN m_Graph) \cup {name}) :
            /\ m_Graph' = AddSystem(m_Graph, name, FuncOf(m_Graph, name) + 1, dependencies, order)
            /\ m_GraphDirty' = TRUE
            /\ run' = [run EXCEPT !.adds = @ + 1]
    /\ UNCHANGED <<m_Systems, m_BatchedGraph, m_Tasks, workers, status, invoked>>

\* RunSequential: every anonymous system is called on the calling thread
DoRunSequential ==
    /\ run.pc = "idle"
    /\ run.calls < MaxRuns
    /\ run' = [run EXCEPT !.calls = @ + 1, !.error = FALSE, !.op = "RunSequential",
                          !.pack = m_Systems]
    /\ status' = [l \in {m_Systems[i] : i \in DOMAIN m_Systems} |-> "done"]
    /\ invoked' = [l \in Labels |->
                      [i \in 1..OccurrencesIn(m_Systems, l) |-> FuncOf(m_Graph, l)]]
    /\ UNCHANGED <<m_Systems, m_Graph, m_BatchedGraph, m_GraphDirty, m_Tasks, workers>>

\* RunParallel and Frame( systems... ) up to the first Submit: the latch is
\* made for the systems to submit (nothing is done for none)
FanOut(op, systems) ==
    /\ run.pc = "idle"
    /\ run.calls < MaxRuns
    /\ run' = [run EXCEPT !.calls = @ + 1, !.error = FALSE, !.op = op, !.pack = systems,
                          !.pc = IF systems = <<>> THEN "idle" ELSE "fan",
                          !.next = 1, !.latch = LatchOf(systems)]
    /\ status' = [l \in {systems[i] : i \in DOMAIN systems} |-> "idle"]
    /\ invoked' = [l \in Labels |-> <<>>]
    /\ UNCHANGED <<m_Systems, m_Graph, m_BatchedGraph, m_GraphDirty, m_Tasks, workers>>

DoRunParallel == FanOut("RunParallel", m_Systems)

DoFrame == \E n \in 0..MaxFrame : FanOut("Frame", SubSeq(FramePack, 1, n))

\* m_Pool->Submit of the next system of RunParallel or Frame
FanOutSubmit ==
    /\ run.pc = "fan"
    /\ run.next <= Len(run.pack)
    /\ m_Tasks' = Append(m_Tasks, run.pack[run.next])
    /\ run' = [run EXCEPT !.next = @ + 1]
    /\ UNCHANGED <<m_Systems, m_Graph, m_BatchedGraph, m_GraphDirty, workers, status, invoked>>

\* latch.wait() of RunParallel or Frame returns, and so does the call
FanOutReturn ==
    /\ run.pc = "fan"
    /\ run.next > Len(run.pack)
    /\ run.latch = 0
    /\ run' = [run EXCEPT !.pc = "idle", !.next = 0]
    /\ UNCHANGED <<m_Systems, m_Graph, m_BatchedGraph, m_GraphDirty, m_Tasks, workers, status, invoked>>

\* RunGraph up to the loop over the batches
DoRunGraph ==
    /\ run.pc = "idle"
    /\ run.calls < MaxRuns
    /\ status' = [n \in DOMAIN m_Graph |-> "idle"]
    /\ invoked' = [l \in Labels |-> <<>>]
    /\ IF DOMAIN m_Graph = {}
       THEN /\ run' = [run EXCEPT !.calls = @ + 1, !.error = FALSE, !.op = "RunGraph"]
            /\ UNCHANGED <<m_BatchedGraph, m_GraphDirty>>
       ELSE IF m_GraphDirty
       THEN \E order \in Orders(DOMAIN m_Graph) :
               LET r == RebuildGraph(m_Graph, order) IN
               /\ m_BatchedGraph' = r.batches
               /\ m_GraphDirty' = r.throws
               /\ run' = [run EXCEPT !.calls = @ + 1, !.error = r.throws, !.op = "RunGraph",
                                     !.pc = IF r.throws THEN "idle" ELSE "batch",
                                     !.batch = 1]
       ELSE /\ run' = [run EXCEPT !.calls = @ + 1, !.error = FALSE, !.op = "RunGraph",
                                  !.pc = "batch", !.batch = 1]
            /\ UNCHANGED <<m_BatchedGraph, m_GraphDirty>>
    /\ UNCHANGED <<m_Systems, m_Graph, m_Tasks, workers>>

\* a batch of one: m_Graph[ batch[ 0 ] ].Func() is called ...
InlineStart ==
    /\ run.pc = "batch"
    /\ run.batch <= Len(m_BatchedGraph)
    /\ Len(m_BatchedGraph[run.batch]) = 1
    /\ LET name == m_BatchedGraph[run.batch][1] IN
       /\ status' = [status EXCEPT ![name] = "running"]
       /\ invoked' = [invoked EXCEPT ![name] = Append(@, FuncOf(m_Graph, name))]
    /\ run' = [run EXCEPT !.pc = "inline"]
    /\ UNCHANGED <<m_Systems, m_Graph, m_BatchedGraph, m_GraphDirty, m_Tasks, workers>>

\* ... and returns
InlineFinish ==
    /\ run.pc = "inline"
    /\ status' = [status EXCEPT ![m_BatchedGraph[run.batch][1]] = "done"]
    /\ run' = [run EXCEPT !.pc = "batch", !.batch = @ + 1]
    /\ UNCHANGED <<m_Systems, m_Graph, m_BatchedGraph, m_GraphDirty, m_Tasks, workers, invoked>>

\* a larger batch: the latch is made and the next task is submitted
SubmitTask ==
    /\ run.pc \in {"batch", "submit"}
    /\ run.batch <= Len(m_BatchedGraph)
    /\ Len(m_BatchedGraph[run.batch]) # 1
    /\ LET batch == m_BatchedGraph[run.batch]
           next == IF run.pc = "batch" THEN 1 ELSE run.next
       IN  /\ m_Tasks' = Append(m_Tasks, batch[next])
           /\ run' = [run EXCEPT !.pc = IF next = Len(batch) THEN "wait" ELSE "submit",
                                 !.next = next + 1,
                                 !.latch = IF run.pc = "batch" THEN LatchOf(batch) ELSE @]
    /\ UNCHANGED <<m_Systems, m_Graph, m_BatchedGraph, m_GraphDirty, workers, status, invoked>>

\* latch.wait() returns
LatchWait ==
    /\ run.pc = "wait"
    /\ run.latch = 0
    /\ run' = [run EXCEPT !.pc = "batch", !.batch = @ + 1, !.next = 0]
    /\ UNCHANGED <<m_Systems, m_Graph, m_BatchedGraph, m_GraphDirty, m_Tasks, workers, status, invoked>>

\* the loop over the batches is over: RunGraph returns
RunGraphReturn ==
    /\ run.pc = "batch"
    /\ run.batch > Len(m_BatchedGraph)
    /\ run' = [run EXCEPT !.pc = "idle", !.batch = 0]
    /\ UNCHANGED <<m_Systems, m_Graph, m_BatchedGraph, m_GraphDirty, m_Tasks, workers, status, invoked>>

\* a worker takes the task at the front of the queue and calls the system
WorkerTake ==
    \E wk \in Workers :
        /\ workers[wk] = NoTask
        /\ m_Tasks # <<>>
        /\ workers' = [workers EXCEPT ![wk] = Head(m_Tasks)]
        /\ m_Tasks' = Tail(m_Tasks)
        /\ status' = [status EXCEPT ![Head(m_Tasks)] = "running"]
        /\ invoked' = [invoked EXCEPT ![Head(m_Tasks)] = Append(@, FuncOf(m_Graph, Head(m_Tasks)))]
        /\ UNCHANGED <<m_Systems, m_Graph, m_BatchedGraph, m_GraphDirty, run>>

\* the system returns and the task counts the latch down
WorkerFinish ==
    \E wk \in Workers :
        /\ workers[wk] # NoTask
        /\ workers' = [workers EXCEPT ![wk] = NoTask]
        /\ status' = [status EXCEPT ![workers[wk]] = "done"]
        /\ run' = [run EXCEPT !.latch = @ - 1]
        /\ UNCHANGED <<m_Systems, m_Graph, m_BatchedGraph, m_GraphDirty, m_Tasks, invoked>>

SchedNext ==
    \/ DoAddSystem /\ UNCHANGED <<ssVars, worldVars, dequeVars, poolVars, serVars, nestVars>>
    \/ DoRunGraph /\ UNCHANGED <<ssVars, worldVars, dequeVars, poolVars, serVars, nestVars>>
    \/ InlineStart /\ UNCHANGED <<ssVars, worldVars, dequeVars, poolVars, serVars, nestVars>>
    \/ InlineFinish /\ UNCHANGED <<ssVars, worldVars, dequeVars, poolVars, serVars, nestVars>>
    \/ SubmitTask /\ UNCHANGED <<ssVars, worldVars, dequeVars, poolVars, serVars, nestVars>>
    \/ LatchWait /\ UNCHANGED <<ssVars, worldVars, dequeVars, poolVars, serVars, nestVars>>
    \/ RunGraphReturn /\ UNCHANGED <<ssVars, worldVars, dequeVars, poolVars, serVars, nestVars>>
    \/ WorkerTake /\ UNCHANGED <<ssVars, worldVars, dequeVars, poolVars, serVars, nestVars>>
    \/ WorkerFinish /\ UNCHANGED <<ssVars, worldVars, dequeVars, poolVars, serVars, nestVars>>

\* the anonymous systems: AddSystem( system ), RunSequential, RunParallel and
\* Frame with the pool's workers
ParallelNext ==
    \/ DoAddAnonymous /\ UNCHANGED <<ssVars, worldVars, dequeVars, poolVars, serVars, nestVars>>
    \/ DoRunSequential /\ UNCHANGED <<ssVars, worldVars, dequeVars, poolVars, serVars, nestVars>>
    \/ DoRunParallel /\ UNCHANGED <<ssVars, worldVars, dequeVars, poolVars, serVars, nestVars>>
    \/ DoFrame /\ UNCHANGED <<ssVars, worldVars, dequeVars, poolVars, serVars, nestVars>>
    \/ FanOutSubmit /\ UNCHANGED <<ssVars, worldVars, dequeVars, poolVars, serVars, nestVars>>
    \/ FanOutReturn /\ UNCHANGED <<ssVars, worldVars, dequeVars, poolVars, serVars, nestVars>>
    \/ WorkerTake /\ UNCHANGED <<ssVars, worldVars, dequeVars, poolVars, serVars, nestVars>>
    \/ WorkerFinish /\ UNCHANGED <<ssVars, worldVars, dequeVars, poolVars, serVars, nestVars>>

(***************************************************************************)
(* WorkStealingQueue (ThreadPool.hpp).  A deque is the record of its       *)
(* atomics; a task is a number, NullTask the null pointer.  A call of      *)
(* Push, Pop or Steal is a record that holds its locals and, as pc, the    *)
(* source line of the atomic access it makes next (0 once it has           *)
(* returned); one step of a call is one atomic access, and the accesses of *)
(* all threads interleave in one total order.                              *)
(***************************************************************************)
NullTask == 0
Tasks == 1..MaxPushes
Slots == 0..(Capacity - 1)
Thieves == 1..MaxThieves

EmptyQueue == [m_Top |-> 0, m_Bottom |-> 0, m_Tasks |-> [i \in Slots |-> NullTask]]

NoCall == [op |-> "none", pc |-> 0, b |-> 0, t |-> 0, taskPtr |-> NullTask,
           task |-> NullTask, ret |-> NullTask, ok |-> FALSE, cas |-> "none"]
BeginPush(task) == [NoCall EXCEPT !.op = "Push", !.pc = 37, !.task = task]
BeginPop == [NoCall EXCEPT !.op = "Pop", !.pc = 48]
BeginSteal == [NoCall EXCEPT !.op = "Steal", !.pc = 74]

\* b - t >= 1024 on size_t: a difference below zero wraps to a huge value
IsFull(b, t) == IF t > b THEN TRUE ELSE b - t >= Capacity

\* m_Tasks[ i % 1024 ].exchange( nullptr ) read as a plain load: the pointer
\* stays in the slot
Exchange_Load(q, i) ==
    [q |-> q, taskPtr |-> q.m_Tasks[i % Capacity]]

\* m_Tasks[ i % 1024 ].exchange( nullptr ): [q, taskPtr]
Exchange(q, i) ==
    [q |-> [q EXCEPT !.m_Tasks[i % Capacity] = NullTask],
     taskPtr |-> q.m_Tasks[i % Capacity]]

\* m_Top.compare_exchange_strong( t, t + 1 ): [q, ok]
CompareExchangeTop(q, t) ==
    IF q.m_Top = t THEN [q |-> [q EXCEPT !.m_Top = t + 1], ok |-> TRUE]
    ELSE [q |-> q, ok |-> FALSE]

\* the next atomic access of a Push call: [q, c]
Push(q, c) ==
    CASE c.pc = 37 -> [q |-> q, c |-> [c EXCEPT !.b = q.m_Bottom, !.pc = 38]]
      [] c.pc = 38 ->
            IF IsFull(c.b, q.m_Top)
            THEN [q |-> q, c |-> [c EXCEPT !.t = q.m_Top, !.ok = FALSE, !.pc = 0]]
            ELSE [q |-> q, c |-> [c EXCEPT !.t = q.m_Top, !.pc = 41]]
      [] c.pc = 41 ->
            [q |-> [q EXCEPT !.m_Tasks[c.b % Capacity] = c.task], c |-> [c EXCEPT !.pc = 42]]
      [] c.pc = 42 ->
            [q |-> [q EXCEPT !.m_Bottom = c.b + 1], c |-> [c EXCEPT !.ok = TRUE, !.pc = 0]]

\* the next atomic access of a Pop call: [q, c]
Pop(q, c) ==
    CASE c.pc = 48 ->
            IF q.m_Bottom = 0 THEN [q |-> q, c |-> [c EXCEPT !.pc = 0]]
            ELSE [q |-> q, c |-> [c EXCEPT !.b = q.m_Bottom - 1, !.pc = 51]]
      [] c.pc = 51 -> [q |-> [q EXCEPT !.m_Bottom = c.b], c |-> [c EXCEPT !.pc = 53]]
      [] c.pc = 53 ->
            [q |-> q, c |-> [c EXCEPT !.t = q.m_Top, !.pc = IF q.m_Top <= c.b THEN 56 ELSE 67]]
      [] c.pc = 56 ->
            LET x == Exchange(q, c.b) IN
            IF c.t = c.b
            THEN [q |-> x.q, c |-> [c EXCEPT !.taskPtr = x.taskPtr, !.pc = 58]]
            ELSE [q |-> x.q, c |-> [c EXCEPT !.taskPtr = x.taskPtr, !.ret = x.taskPtr, !.pc = 0]]
      [] c.pc = 58 ->
            LET x == CompareExchangeTop(q, c.t) IN
            [q |-> x.q, c |-> [c EXCEPT !.cas = IF x.ok THEN "won" ELSE "lost",
                                        !.pc = IF x.ok THEN 62 ELSE 59]]
      [] c.pc = 59 ->
            [q |-> [q EXCEPT !.m_Bottom = c.b + 1], c |-> [c EXCEPT !.pc = 0]]
      [] c.pc = 62 ->
            [q |-> [q EXCEPT !.m_Bottom = c.b + 1], c |-> [c EXCEPT !.ret = c.taskPtr, !.pc = 0]]
      [] c.pc = 67 ->
            [q |-> [q EXCEPT !.m_Bottom = c.b + 1], c |-> [c EXCEPT !.pc = 0]]

\* the next atomic access of a Steal call: [q, c]
Steal(q, c) ==
    CASE c.pc = 74 -> [q |-> q, c |-> [c EXCEPT !.t = q.m_Top, !.pc = 76]]
      [] c.pc = 76 ->
            [q |-> q, c |-> [c EXCEPT !.b = q.m_Bottom, !.pc = IF c.t < q.m_Bottom THEN 79 ELSE 0]]
      [] c.pc = 79 ->
            LET x == CompareExchangeTop(q, c.t) IN
            [q |-> x.q, c |-> [c EXCEPT !.cas = IF x.ok THEN "won" ELSE "lost",
                                        !.pc = IF x.ok THEN 82 ELSE 0]]
      [] c.pc = 82 ->
            LET x == Exchange(q, c.t) IN
            [q |-> x.q, c |-> [c EXCEPT !.taskPtr = x.taskPtr, !.ret = x.taskPtr, !.pc = 0]]

\* IsEmpty()
IsEmpty(q) == q.m_Top >= q.m_Bottom

(***************************************************************************)
(* The stand-alone deque as a state machine: one owning thread that calls  *)
(* Push and Pop, one call after the other, and the thieves, each calling   *)
(* Steal.  pushed is the number of Push calls begun (the n-th pushes the   *)
(* task n), accepted the tasks whose Push returned true, delivered the     *)
(* number of Pop and Steal calls that returned each task.                  *)
(***************************************************************************)
DequeInit ==
    /\ queue = EmptyQueue
    /\ owner = NoCall
    /\ thieves = [th \in Thieves |-> NoCall]
    /\ pushed = 0
    /\ pops = 0
    /\ accepted = {}
    /\ delivered = [task \in Tasks |-> 0]

\* the call c has returned: what it delivered is counted
Account(c) ==
    /\ delivered' = IF c.pc = 0 /\ c.op # "Push" /\ c.ret # NullTask
                    THEN [delivered EXCEPT ![c.ret] = @ + 1]
                    ELSE delivered
    /\ accepted' = IF c.pc = 0 /\ c.op = "Push" /\ c.ok
                   THEN accepted \cup {c.task}
                   ELSE accepted

OwnerPush ==
    /\ owner.pc = 0
    /\ pushed < MaxPushes
    /\ owner' = BeginPush(pushed + 1)
    /\ pushed' = pushed + 1
    /\ UNCHANGED <<queue, thieves, pops, accepted, delivered>>

OwnerPop ==
    /\ owner.pc = 0
    /\ pops < MaxPops
    /\ owner' = BeginPop
    /\ pops' = pops + 1
    /\ UNCHANGED <<queue, thieves, pushed, accepted, delivered>>

OwnerStep ==
    /\ owner.pc # 0
    /\ LET x == IF owner.op = "Push" THEN Push(queue, owner) ELSE Pop(queue, owner) IN
       /\ queue' = x.q
       /\ owner' = x.c
       /\ Account(x.c)
    /\ UNCHANGED <<thieves, pushed, pops>>

ThiefSteal ==
    \E th \in Thieves :
        /\ thieves[th].pc = 0
        /\ thieves' = [thieves EXCEPT ![th] = BeginSteal]
        /\ UNCHANGED <<queue, owner, pushed, pops, accepted, delivered>>

ThiefStep ==
    \E th \in Thieves :
        /\ thieves[th].pc # 0
        /\ LET x == Steal(queue, thieves[th]) IN
           /\ queue' = x.q
           /\ thieves' = [thieves EXCEPT ![th] = x.c]
           /\ Account(x.c)
        /\ UNCHANGED <<owner, pushed, pops>>

DequeNext ==
    \/ OwnerPush /\ UNCHANGED <<ssVars, worldVars, schedVars, poolVars, serVars, nestVars>>
    \/ OwnerPop /\ UNCHANGED <<ssVars, worldVars, schedVars, poolVars, serVars, nestVars>>
    \/ OwnerStep /\ UNCHANGED <<ssVars, worldVars, schedVars, poolVars, serVars, nestVars>>
    \/ ThiefSteal /\ UNCHANGED <<ssVars, worldVars, schedVars, poolVars, serVars, nestVars>>
    \/ ThiefStep /\ UNCHANGED <<ssVars, worldVars, schedVars, poolVars, serVars, nestVars>>

(***************************************************************************)
(* ThreadPool (ThreadPool.hpp).  The workers are numbered from 0 as in     *)
(* WorkerLoop( i ); the state of a worker thread is its position in        *)
(* WorkerLoop, as pc the source line it executes next (0 once the thread   *)
(* has returned from WorkerLoop), its task, its call on a                  *)
(* WorkStealingQueue and the count i of the stealing loop.  The thread     *)
(* that owns the pool submits tasks and then destroys the pool.  A task    *)
(* that runs on a worker may submit one more task from there.  m_Stop is   *)
(* read at line 208 without the mutex: the read yields the value m_Stop    *)
(* has at some moment between the steps around it.                         *)
(***************************************************************************)
PoolWorkers == 0..(MaxPoolWorkers - 1)
PoolTasks == 1..(2 * MaxSubmits)
MainThread == -1
NoThread == -2

\* the task that the task submits when it submits one from its worker
ChildOf(task) == task + MaxSubmits

NoWork == [pc |-> 185, task |-> NullTask, call |-> BeginPop, i |-> 0]

PoolInit ==
    /\ m_Queues = [w \in PoolWorkers |-> EmptyQueue]
    /\ m_Stop = FALSE
    /\ m_QueueMutex = NoThread
    /\ m_Workers = [w \in PoolWorkers |-> NoWork]
    /\ main = [pc |-> 0, submitted |-> 0]
    /\ enqueued = {}
    /\ executed = [task \in PoolTasks |-> 0]

\* the victim of the i-th round of the stealing loop of the worker index
Victim(index, i) == (index + i + 1) % MaxPoolWorkers

\* Submit( task ) is called by the owning thread
PoolSubmit ==
    /\ main.pc = 0
    /\ main.submitted < MaxSubmits
    /\ main' = [main EXCEPT !.pc = 160, !.submitted = @ + 1]
    /\ UNCHANGED <<m_Queues, m_Stop, m_QueueMutex, m_Workers, m_Tasks, enqueued, executed>>

\* ~ThreadPool() is called by the owning thread
PoolDestroy ==
    /\ main.pc = 0
    /\ main' = [main EXCEPT !.pc = 169]
    /\ UNCHANGED <<m_Queues, m_Stop, m_QueueMutex, m_Workers, m_Tasks, enqueued, executed>>

\* the next step of the owning thread inside Submit or ~ThreadPool
MainStep ==
    /\ \/ /\ main.pc \in {160, 169}
          /\ m_QueueMutex = NoThread
          /\ m_QueueMutex' = MainThread
          /\ main' = [main EXCEPT !.pc = IF main.pc = 160 THEN 161 ELSE 170]
          /\ UNCHANGED <<m_Stop, m_Tasks, enqueued>>
       \/ /\ main.pc = 161
          /\ IF m_Stop
             THEN /\ main' = [main EXCEPT !.pc = 0]
                  /\ UNCHANGED <<m_Tasks, enqueued>>
             ELSE /\ m_Tasks' = Append(m_Tasks, main.submitted)
                  /\ enqueued' = enqueued \cup {main.submitted}
                  /\ main' = [main EXCEPT !.pc = 0]
          /\ m_QueueMutex' = NoThread
          /\ UNCHANGED m_Stop
       \/ /\ main.pc = 170
          /\ m_Stop' = TRUE
          /\ m_QueueMutex' = NoThread
          /\ main' = [main EXCEPT !.pc = 173]
          /\ UNCHANGED <<m_Tasks, enqueued>>
       \/ /\ main.pc = 173
          /\ \A w \in PoolWorkers : m_Workers[w].pc = 0
          /\ main' = [main EXCEPT !.pc = 175]
          /\ UNCHANGED <<m_Stop, m_QueueMutex, m_Tasks, enqueued>>
    /\ UNCHANGED <<m_Queues, m_Workers, executed>>

\* the worker goes on after its call on a deque has returned with task
AfterPop(wk, task) ==
    IF task # NullTask THEN [wk EXCEPT !.task = task, !.pc = 205]
    ELSE [wk EXCEPT !.pc = 189]

AfterSteal(wk, task) ==
    IF task # NullTask THEN [wk EXCEPT !.task = task, !.pc = 205]
    ELSE IF wk.i + 1 < MaxPoolWorkers THEN [wk EXCEPT !.i = @ + 1, !.call = BeginSteal]
    ELSE [wk EXCEPT !.pc = 208]

\* the next step of the worker w in WorkerLoop( w )
WorkerLoop(w) ==
    LET wk == m_Workers[w] IN
    \/ /\ wk.pc = 185
       /\ LET x == Pop(m_Queues[w], wk.call) IN
          /\ m_Queues' = [m_Queues EXCEPT ![w] = x.q]
          /\ m_Workers' = [m_Workers EXCEPT ![w] =
                IF x.c.pc = 0 THEN AfterPop([wk EXCEPT !.call = x.c], x.c.ret)
                ELSE [wk EXCEPT !.call = x.c]]
       /\ UNCHANGED <<m_Stop, m_QueueMutex, m_Tasks, executed>>
    \/ /\ wk.pc = 189
       /\ IF m_QueueMutex = NoThread
          THEN /\ m_QueueMutex' = w
               /\ m_Workers' = [m_Workers EXCEPT ![w].pc = 190]
          ELSE /\ m_Workers' = [m_Workers EXCEPT ![w].pc = 197, ![w].i = 0, ![w].call = BeginSteal]
               /\ UNCHANGED m_QueueMutex
       /\ UNCHANGED <<m_Queues, m_Stop, m_Tasks, executed>>
    \/ /\ wk.pc = 190
       /\ IF m_Tasks # <<>>
          THEN /\ m_Tasks' = Tail(m_Tasks)
               /\ m_Workers' = [m_Workers EXCEPT ![w].task = Head(m_Tasks), ![w].pc = 205]
          ELSE /\ m_Workers' = [m_Workers EXCEPT ![w].pc = 197, ![w].i = 0, ![w].call = BeginSteal]
               /\ UNCHANGED m_Tasks
       /\ m_QueueMutex' = NoThread
       /\ UNCHANGED <<m_Queues, m_Stop, executed>>
    \/ /\ wk.pc = 197
       /\ LET victim == Victim(w, wk.i)
              x == Steal(m_Queues[victim], wk.call)
          IN  /\ m_Queues' = [m_Queues EXCEPT ![victim] = x.q]
              /\ m_Workers' = [m_Workers EXCEPT ![w] =
                    IF x.c.pc = 0 THEN AfterSteal([wk EXCEPT !.call = x.c], x.c.ret)
                    ELSE [wk EXCEPT !.call = x.c]]
       /\ UNCHANGED <<m_Stop, m_QueueMutex, m_Tasks, executed>>
    \/ /\ wk.pc = 205
       /\ executed' = [executed EXCEPT ![wk.task] = @ + 1]
       /\ \E submits \in {FALSE, wk.task <= MaxSubmits} :
             m_Workers' = [m_Workers EXCEPT ![w] =
                IF submits THEN [wk EXCEPT !.pc = 153, !.call = BeginPush(ChildOf(wk.task))]
                ELSE NoWork]
       /\ UNCHANGED <<m_Queues, m_Stop, m_QueueMutex, m_Tasks>>
    \/ /\ wk.pc = 153
       /\ LET x == Push(m_Queues[w], wk.call) IN
          /\ m_Queues' = [m_Queues EXCEPT ![w] = x.q]
          /\ m_Workers' = [m_Workers EXCEPT ![w] =
                IF x.c.pc # 0 THEN [wk EXCEPT !.call = x.c]
                ELSE IF x.c.ok THEN NoWork
                ELSE [wk EXCEPT !.call = x.c, !.pc = 160]]
       /\ UNCHANGED <<m_Stop, m_QueueMutex, m_Tasks, executed>>
    \/ /\ wk.pc = 160
       /\ m_QueueMutex = NoThread
       /\ m_QueueMutex' = w
       /\ m_Workers' = [m_Workers EXCEPT ![w].pc = 161]
       /\ UNCHANGED <<m_Queues, m_Stop, m_Tasks, executed>>
    \/ /\ wk.pc = 161
       /\ IF m_Stop
          THEN /\ m_Workers' = [m_Workers EXCEPT ![w].pc = 0]
               /\ UNCHANGED m_Tasks
          ELSE /\ m_Tasks' = Append(m_Tasks, wk.call.task)
               /\ m_Workers' = [m_Workers EXCEPT ![w] = NoWork]
       /\ m_QueueMutex' = NoThread
       /\ UNCHANGED <<m_Queues, m_Stop, executed>>
    \/ /\ wk.pc = 208
       /\ m_Workers' = [m_Workers EXCEPT ![w].pc = IF m_Stop THEN 0 ELSE 211]
       /\ UNCHANGED <<m_Queues, m_Stop, m_QueueMutex, m_Tasks, executed>>
    \/ /\ wk.pc = 211
       /\ m_QueueMutex = NoThread
       /\ m_QueueMutex' = w
       /\ m_Workers' = [m_Workers EXCEPT ![w].pc = 215]
       /\ UNCHANGED <<m_Queues, m_Stop, m_Tasks, executed>>
    \/ /\ wk.pc = 215
       /\ m_Workers' = [m_Workers EXCEPT ![w] =
             IF m_Stop /\ m_Tasks = <<>> /\ IsEmpty(m_Queues[w])
             THEN [wk EXCEPT !.pc = 0]
             ELSE NoWork]
       /\ m_QueueMutex' = NoThread
       /\ UNCHANGED <<m_Queues, m_Stop, m_Tasks, executed>>

WorkerStep == \E w \in PoolWorkers : WorkerLoop(w) /\ UNCHANGED <<main, enqueued>>

PoolNext ==
    \/ PoolSubmit /\ UNCHANGED <<ssVars, worldVars, graphVars, dequeVars, serVars, nestVars>>
    \/ PoolDestroy /\ UNCHANGED <<ssVars, worldVars, graphVars, dequeVars, serVars, nestVars>>
    \/ MainStep /\ UNCHANGED <<ssVars, worldVars, graphVars, dequeVars, serVars, nestVars>>
    \/ WorkerStep /\ UNCHANGED <<ssVars, worldVars, graphVars, dequeVars, serVars, nestVars>>

SSNext ==
    \/ SSInsert /\ UNCHANGED <<worldVars, schedVars, dequeVars, poolVars, serVars, nestVars>>
    \/ SSRemove /\ UNCHANGED <<worldVars, schedVars, dequeVars, poolVars, serVars, nestVars>>
    \/ SSContains /\ UNCHANGED <<worldVars, schedVars, dequeVars, poolVars, serVars, nestVars>>

(***************************************************************************)
(* SerializationContext, the binary format.  A stream is the sequence of   *)
(* the words written: the entity count, then for every entity its id, its  *)
(* component count and, for every component, the length of the name, the   *)
(* name and what the registered function wrote.  The registered functions  *)
(* write and read the value of the component as one word.                  *)
(***************************************************************************)
\* World(): no entity, no store, no callback
EmptyWorld ==
    [m_EntitySignatures |-> <<>>,
     m_EntityGenerations |-> <<>>,
     m_FreeEntities |-> <<>>,
     m_ComponentStores |-> [T \in {} |-> EmptySparseSet],
     m_StoresByID |-> {},
     m_OnRemovedTriggers |-> {},
     m_ComponentSignals |-> [T \in {} |-> EmptySignals],
     ev |-> <<>>,
     ub |-> FALSE]

\* get<T>(id): what a read of GetComponent<T>( id ) yields in w
GetValue(w, T, id) ==
    LET w1 == GetStore(w, T) IN ReadRef(w1, T, ComponentRef(w1, T, id))

GetEntityCount(w) == Len(w.m_EntitySignatures)
GetEntityAt(w, index, ug) == MakeID(GenerationAt(w, index, ug), index)
GetEntityMask(w, id) == w.m_EntitySignatures[GetIndex(id) + 1]

\* m_SerializersByID after RegisterBinary<T> for the types: its size, and
\* the type at cid, which is a type only where binarySerialize is set
SerializersByIDSize(types) ==
    IF types = {} THEN 0
    ELSE 1 + (CHOOSE c \in {ComponentID(T) : T \in types} :
                 \A T \in types : ComponentID(T) <= c)
HasBinarySerializer(types, cid) == \E T \in types : ComponentID(T) = cid
NameLen(name) == Len(name)

\* the cids of SerializeBinary's two loops that pass both tests, ascending
RECURSIVE SerializedIDs(_, _, _)
SerializedIDs(types, mask, cid) ==
    IF cid >= SerializersByIDSize(types) THEN <<>>
    ELSE (IF MaskTest(mask, cid) /\ HasBinarySerializer(types, cid) THEN <<cid>> ELSE <<>>)
             \o SerializedIDs(types, mask, cid + 1)

\* nameLen, name, and binarySerialize( id, world, os )
RECURSIVE SerializeComponents(_, _, _)
SerializeComponents(w, id, cids) ==
    IF cids = <<>> THEN <<>>
    ELSE LET T == TypeOfID(Head(cids))
         IN  <<NameLen(T), T, GetValue(w, T, id)>>
                 \o SerializeComponents(w, id, Tail(cids))

\* the entities SerializeBinary writes, from slot i on: [count, words]
RECURSIVE SerializeEntities(_, _, _, _)
SerializeEntities(w, types, i, ug) ==
    IF i >= GetEntityCount(w) THEN [count |-> 0, words |-> <<>>]
    ELSE LET id == GetEntityAt(w, i, ug)
             rest == SerializeEntities(w, types, i + 1, ug)
         IN  IF IsAlive(w, id, ug)
             THEN LET cids == SerializedIDs(types, GetEntityMask(w, id), 0)
                  IN  [count |-> rest.count + 1,
                       words |-> <<id, Len(cids)>> \o SerializeComponents(w, id, cids)
                                     \o rest.words]
             ELSE rest

SerializeBinary(w, types, ug) ==
    LET e == SerializeEntities(w, types, 0, ug) IN <<e.count>> \o e.words

\* GetEntityAt( i ) reads m_EntityGenerations[i] beyond the end
SerializeOutOfBounds(w) == Len(w.m_EntityGenerations) < Len(w.m_EntitySignatures)

\* the loop over the components of one entity: [w, pos, error]; a read beyond
\* the end of the stream ends the loop
RECURSIVE DeserializeComponents(_, _, _, _, _, _)
DeserializeComponents(w, types, is, pos, newId, j) ==
    IF j = 0 \/ pos + 1 > Len(is) THEN [w |-> w, pos |-> pos, error |-> FALSE]
    ELSE LET name == is[pos + 1]
         IN  IF name \in types
             THEN IF pos + 2 > Len(is) THEN [w |-> w, pos |-> pos + 2, error |-> FALSE]
                  ELSE DeserializeComponents(AddComponent(w, newId, name, is[pos + 2], 0),
                                             types, is, pos + 3, newId, j - 1)
             ELSE [w |-> w, pos |-> pos + 2, error |-> TRUE]

\* the loop over the entities, pos the next word to read: the World filled
RECURSIVE DeserializeEntities(_, _, _, _, _)
DeserializeEntities(w, types, is, pos, i) ==
    IF i = 0 \/ pos > Len(is) THEN w
    ELSE LET c == CreateEntityWithID(w, is[pos], 0)
         IN  IF pos + 1 > Len(is) THEN c.w
             ELSE LET d == DeserializeComponents(c.w, types, is, pos + 2, c.ret, is[pos + 1])
                  IN  IF d.error THEN d.w
                      ELSE DeserializeEntities(d.w, types, is, d.pos, i - 1)

DeserializeBinary(w, types, is) ==
    IF is = <<>> THEN w ELSE DeserializeEntities(w, types, is, 2, is[1])

SerInit ==
    /\ stream = <<>>
    /\ restored = EmptyWorld

\* ctx.SerializeBinary( world, ss ); World newWorld; ctx.DeserializeBinary( newWorld, ss )
DoSerializeRoundTrip(types) ==
    /\ ~ub
    /\ \E ug \in (IF SerializeOutOfBounds(W) THEN Gens ELSE {0}) :
        LET os == SerializeBinary(W, types, ug)
        IN  /\ stream' = os
            /\ restored' = DeserializeBinary(EmptyWorld, types, os)
    /\ ub' = SerializeOutOfBounds(W)
    /\ lastOp' = Call("SerializeBinary", NoID, "Position", 0, <<>>)
    /\ events' = <<>>
    /\ UNCHANGED <<m_EntitySignatures, m_EntityGenerations, m_FreeEntities,
                   m_ComponentStores, m_StoresByID, m_OnRemovedTriggers,
                   m_ComponentSignals>>
    /\ UNCHANGED <<ssVars, schedVars, dequeVars, poolVars, nestVars>>

(***************************************************************************)
(* The scheduler's pool under nested calls.  The thread that owns the      *)
(* scheduler calls Frame or RunParallel: it makes a latch, submits one     *)
(* task per system and waits on the latch.  A system that runs on a worker *)
(* may call Frame itself: Submit then sees t_WorkerIndex # -1 and pushes   *)
(* onto the worker's own deque, and the worker blocks in latch.wait().     *)
(* A deque call runs here without interleaving (its interleavings are      *)
(* those of the stand-alone deque above), so a deque is the sequence of    *)
(* the tasks from m_Top to m_Bottom.  A task is a number that names        *)
(* the thread whose latch it counts down and its place in that call's      *)
(* pack; pc is the source line a thread is at: 32 before the pool exists,  *)
(* 0 between calls, 101 at a Submit of Frame, 105 in latch.wait(), 185 at  *)
(* the top of WorkerLoop, 206 in task(), 103 at latch.count_down().        *)
(***************************************************************************)
NestWorkers == 0..(MaxNestWorkers - 1)
NestThreads == {MainThread} \cup NestWorkers

\* the lambda Frame submits for the k-th system of the call of thread th
TaskOf(th, k) == (th + 1) * MaxPack + k
\* the thread whose latch the lambda captured
CallerOf(task) == ((task - 1) \div MaxPack) - 1

NoFrame == [pc |-> 0, task |-> NullTask, next |-> 0, pack |-> 0, latch |-> 0, calls |-> 0]

NestInit ==
    /\ m_Pool = [m_Queues |-> <<>>, m_Tasks |-> <<>>]
    /\ threads = (MainThread :> [NoFrame EXCEPT !.pc = 32])

\* Push( task ) run to its return: false when b - t >= 1024, else the task
\* is stored at m_Bottom; [q, ok]
PushCall(q, task) ==
    IF Len(q) >= Capacity THEN [q |-> q, ok |-> FALSE]
    ELSE [q |-> Append(q, task), ok |-> TRUE]

\* Pop() run to its return: the task at m_Bottom - 1, or none; [q, task]
PopCall(q) ==
    IF q = <<>> THEN [q |-> q, task |-> NullTask]
    ELSE [q |-> PopBack(q), task |-> q[Len(q)]]

\* Steal() run to its return: the task at m_Top, or none; [q, task]
StealCall(q) ==
    IF q = <<>> THEN [q |-> q, task |-> NullTask]
    ELSE [q |-> Tail(q), task |-> Head(q)]

\* m_Pool = std::make_unique<ThreadPool>( std::thread::hardware_concurrency() ):
\* one deque and one thread in WorkerLoop per hardware thread
DoConstruct ==
    /\ threads[MainThread].pc = 32
    /\ \E n \in 1..MaxNestWorkers :
        /\ m_Pool' = [m_Queues |-> [i \in 0..(n - 1) |-> <<>>], m_Tasks |-> <<>>]
        /\ threads' = [th \in {MainThread} \cup 0..(n - 1) |->
                          IF th = MainThread THEN NoFrame ELSE [NoFrame EXCEPT !.pc = 185]]

\* Frame( systems... ) or RunParallel() entered by thread th with n systems:
\* std::latch latch( n )
EnterFrame(t, n) == [t EXCEPT !.pc = 101, !.next = 1, !.pack = n, !.latch = n]

\* the thread that owns the scheduler calls Frame or RunParallel
DoNestFrame ==
    /\ threads[MainThread].pc = 0
    /\ threads[MainThread].calls < MaxNestCalls
    /\ \E n \in 1..MaxPack :
        threads' = [threads EXCEPT
                       ![MainThread] = [EnterFrame(@, n) EXCEPT !.calls = @ + 1]]
    /\ UNCHANGED m_Pool

\* Submit( task ) by thread th: a worker pushes onto its own deque and falls
\* back to the global queue when Push returns false; [m_Queues, m_Tasks]
NestSubmit(pool, th, task) ==
    LET t_WorkerIndex == th
        pushedOwn == PushCall(pool.m_Queues[t_WorkerIndex], task)
    IN  IF t_WorkerIndex # -1 /\ t_WorkerIndex \in DOMAIN pool.m_Queues /\ pushedOwn.ok
        THEN [pool EXCEPT !.m_Queues[t_WorkerIndex] = pushedOwn.q]
        ELSE IF t_WorkerIndex # -1 /\ t_WorkerIndex \in DOMAIN pool.m_Queues
             THEN [m_Queues |-> [pool.m_Queues EXCEPT ![t_WorkerIndex] = pushedOwn.q],
                   m_Tasks |-> Append(pool.m_Tasks, task)]
             ELSE [pool EXCEPT !.m_Tasks = Append(@, task)]

\* one Submit of the fold in Frame (one iteration of the loop of RunParallel)
SubmitNext(th) ==
    /\ th \in DOMAIN threads
    /\ threads[th].pc = 101
    /\ m_Pool' = NestSubmit(m_Pool, th, TaskOf(th, threads[th].next))
    /\ threads' = [threads EXCEPT
                      ![th].next = @ + 1,
                      ![th].pc = IF threads[th].next = threads[th].pack THEN 105 ELSE 101]

\* latch.wait() returns once the counter is zero; on a worker the system
\* that made the call then returns into its task
LatchPass(th) ==
    /\ th \in DOMAIN threads
    /\ threads[th].pc = 105
    /\ threads[th].latch = 0
    /\ threads' = [threads EXCEPT ![th].pc = IF th = MainThread THEN 0 ELSE 103]
    /\ UNCHANGED m_Pool

\* the steal loop of WorkerLoop from the i-th victim on: [m_Queues, task]
RECURSIVE StealFrom(_, _, _)
StealFrom(queues, index, i) ==
    LET size == Cardinality(DOMAIN queues)
        victim == (index + i + 1) % size
        stolen == StealCall(queues[victim])
    IN  IF i >= size THEN [m_Queues |-> queues, task |-> NullTask]
        ELSE IF stolen.task # NullTask
             THEN [m_Queues |-> [queues EXCEPT ![victim] = stolen.q], task |-> stolen.task]
             ELSE StealFrom([queues EXCEPT ![victim] = stolen.q], index, i + 1)

\* one iteration of WorkerLoop up to `if ( task )`: the local deque, then the
\* global queue, then the other deques; [pool, task]
TakeTask(pool, index) ==
    LET popped == PopCall(pool.m_Queues[index])
        afterPop == [pool.m_Queues EXCEPT ![index] = popped.q]
        stolen == StealFrom(afterPop, index, 0)
    IN  IF popped.task # NullTask
        THEN [pool |-> [pool EXCEPT !.m_Queues = afterPop], task |-> popped.task]
        ELSE IF pool.m_Tasks # <<>>
             THEN [pool |-> [m_Queues |-> afterPop, m_Tasks |-> Tail(pool.m_Tasks)],
                   task |-> Head(pool.m_Tasks)]
             ELSE [pool |-> [m_Queues |-> stolen.m_Queues, m_Tasks |-> pool.m_Tasks],
                   task |-> stolen.task]

\* a worker at the top of its loop finds a task; finding none it waits 10 us
\* and tries again, which changes nothing
WorkerAcquire(w) ==
    /\ w \in DOMAIN threads
    /\ w # MainThread
    /\ threads[w].pc = 185
    /\ LET taken == TakeTask(m_Pool, w)
       IN  /\ taken.task # NullTask
           /\ m_Pool' = taken.pool
           /\ threads' = [threads EXCEPT ![w].pc = 206, ![w].task = taken.task]

\* task(): systems() runs.  A system of the owner's call either returns or
\* calls Frame with n systems of its own; those return.
SystemRuns(w) ==
    /\ w \in DOMAIN threads
    /\ threads[w].pc = 206
    /\ \/ threads' = [threads EXCEPT ![w].pc = 103]
       \/ /\ CallerOf(threads[w].task) = MainThread
          /\ \E n \in 1..MaxPack : threads' = [threads EXCEPT ![w] = EnterFrame(@, n)]
    /\ UNCHANGED m_Pool

\* latch.count_down() at the end of the task, then back to the top of WorkerLoop
CountDown(w) ==
    /\ w \in DOMAIN threads
    /\ threads[w].pc = 103
    /\ threads' = [threads EXCEPT
                      ![CallerOf(threads[w].task)].latch = @ - 1,
                      ![w].pc = 185,
                      ![w].task = NullTask]
    /\ UNCHANGED m_Pool

\* the next step of thread th
NestStep(th) ==
    /\ \/ SubmitNext(th)
       \/ LatchPass(th)
       \/ WorkerAcquire(th)
       \/ SystemRuns(th)
       \/ CountDown(th)
    /\ UNCHANGED <<ssVars, worldVars, schedVars, dequeVars, poolVars, serVars>>

NestNext ==
    \/ DoConstruct /\ UNCHANGED <<ssVars, worldVars, schedVars, dequeVars, poolVars, serVars>>
    \/ DoNestFrame /\ UNCHANGED <<ssVars, worldVars, schedVars, dequeVars, poolVars, serVars>>
    \/ \E th \in NestThreads : NestStep(th)

Init ==
    SSInit /\ WorldInit /\ SchedInit /\ DequeInit /\ PoolInit /\ SerInit /\ NestInit

\* the World under every call of its API, both component types, callbacks
Spec == Init /\ [][WorldNext(MaxEntities, CompTypes, MaxCallbacks)]_vars

\* the stand-alone SparseSet under Insert, Remove and Contains
SpecSparseSet == Init /\ [][SSNext]_vars

\* the observers: one slot, one component type, up to MaxObservers callbacks;
\* HasComponent is asked, and RemoveComponent and PatchComponent are called,
\* also with identifiers of the index beyond the slot
ObserverNext ==
    \/ DoCreateEntity(MaxEntities)
    \/ DoDestroyEntity(MaxEntities)
    \/ DoAddComponent(MaxEntities, {"Position"})
    \/ DoRemoveComponent(MaxEntities + 1, {"Position"})
    \/ DoPatchComponent(MaxEntities + 1, {"Position"})
    \/ DoHasComponent(MaxEntities + 1, {"Position"})
    \/ DoOnEvent({"Position"}, MaxObservers)

SpecObservers == Init /\ [][ObserverNext]_vars

\* a component type whose id is beyond the mask, on one slot
OverflowNext ==
    \/ DoCreateEntity(MaxEntities)
    \/ DoDestroyEntity(MaxEntities)
    \/ DoAddComponent(MaxEntities, {"Late"})
    \/ DoRemoveComponent(MaxEntities, {"Late"})
    \/ DoHasComponent(MaxEntities, {"Late"})
    \/ DoOnEvent({"Late"}, MaxCallbacks)

SpecOverflow == Init /\ [][OverflowNext]_vars

\* the views: two slots, no callbacks; a tag and a type whose id is beyond the
\* mask, the views over one of them and over both in either order; entities
\* lose their components by RemoveComponent
ViewTypes == {"Tag", "Late"}
Views ==
    {<<T>> : T \in ViewTypes}
        \cup {Cs \in {<<T, U>> : T, U \in ViewTypes} : Cs[1] # Cs[2]}
ViewNext ==
    \/ DoCreateEntity(MaxViewEntities)
    \/ DoAddComponent(MaxViewEntities, ViewTypes)
    \/ DoRemoveComponent(MaxViewEntities, ViewTypes)
    \/ DoEach(Views)

SpecView == Init /\ [][ViewNext]_vars

\* the binary round trip: two slots, no callbacks, RegisterBinary called for
\* the one component type in use; the World is serialized once, after the last
\* of its operations
SerializedTypes == {"Position"}
SerializeNext ==
    \/ stream = <<>> /\ DoCreateEntity(MaxViewEntities)
    \/ stream = <<>> /\ DoDestroyEntity(MaxViewEntities)
    \/ stream = <<>> /\ DoAddComponent(MaxViewEntities, SerializedTypes)
    \/ stream = <<>> /\ DoSerializeRoundTrip(SerializedTypes)

SpecSerialize == Init /\ [][SerializeNext]_vars

\* the entities: two slots, no components; identifiers are created, also
\* in bulk and with a chosen identifier, and destroyed
EntityNext ==
    \/ DoCreateEntity(MaxViewEntities)
    \/ DoCreateEntitiesBulk(MaxViewEntities)
    \/ DoCreateEntityWithID(MaxViewEntities)
    \/ DoDestroyEntity(MaxViewEntities)

SpecEntities == Init /\ [][EntityNext]_vars

\* the neighbours of a destroyed entity: two slots, one component type, no
\* callbacks; entities are created, given a component and destroyed
NeighbourNext ==
    \/ DoCreateEntity(MaxViewEntities)
    \/ DoAddComponent(MaxViewEntities, {"Position"})
    \/ DoDestroyEntity(MaxViewEntities)

SpecNeighbours == Init /\ [][NeighbourNext]_vars

\* the scheduler: AddSystem and RunGraph with the pool's workers
SpecScheduler == Init /\ [][SchedNext]_vars

\* the scheduler: the anonymous systems under RunSequential, RunParallel and Frame
SpecParallel == Init /\ [][ParallelNext]_vars

\* the scheduler under all of its calls: named and anonymous systems
MixedNext ==
    \/ DoAddAnonymous /\ UNCHANGED <<ssVars, worldVars, dequeVars, poolVars, serVars, nestVars>>
    \/ DoAddSystem /\ UNCHANGED <<ssVars, worldVars, dequeVars, poolVars, serVars, nestVars>>
    \/ DoRunSequential /\ UNCHANGED <<ssVars, worldVars, dequeVars, poolVars, serVars, nestVars>>
    \/ DoRunParallel /\ UNCHANGED <<ssVars, worldVars, dequeVars, poolVars, serVars, nestVars>>
    \/ DoFrame /\ UNCHANGED <<ssVars, worldVars, dequeVars, poolVars, serVars, nestVars>>
    \/ FanOutSubmit /\ UNCHANGED <<ssVars, worldVars, dequeVars, poolVars, serVars, nestVars>>
    \/ FanOutReturn /\ UNCHANGED <<ssVars, worldVars, dequeVars, poolVars, serVars, nestVars>>
    \/ DoRunGraph /\ UNCHANGED <<ssVars, worldVars, dequeVars, poolVars, serVars, nestVars>>
    \/ InlineStart /\ UNCHANGED <<ssVars, worldVars, dequeVars, poolVars, serVars, nestVars>>
    \/ InlineFinish /\ UNCHANGED <<ssVars, worldVars, dequeVars, poolVars, serVars, nestVars>>
    \/ SubmitTask /\ UNCHANGED <<ssVars, worldVars, dequeVars, poolVars, serVars, nestVars>>
    \/ LatchWait /\ UNCHANGED <<ssVars, worldVars, dequeVars, poolVars, serVars, nestVars>>
    \/ RunGraphReturn /\ UNCHANGED <<ssVars, worldVars, dequeVars, poolVars, serVars, nestVars>>
    \/ WorkerTake /\ UNCHANGED <<ssVars, worldVars, dequeVars, poolVars, serVars, nestVars>>
    \/ WorkerFinish /\ UNCHANGED <<ssVars, worldVars, dequeVars, poolVars, serVars, nestVars>>

SpecMixed == Init /\ [][MixedNext]_vars

\* the stand-alone WorkStealingQueue: its owner and the thieves
SpecDeque == Init /\ [][DequeNext]_vars

\* the ThreadPool: Submit calls, the workers, the destructor
SpecPool == Init /\ [][PoolNext]_vars

\* the scheduler's pool under nested calls, every thread scheduled fairly:
\* a thread that can take a step eventually takes one
SpecNested ==
    Init /\ [][NestNext]_vars /\ \A th \in NestThreads : WF_vars(NestStep(th))


(***************************************************************************)
(* Vocabulary of the properties.                                           *)
(***************************************************************************)
\* every identifier a World of this size can be asked about: the generations an
\* operation can leave in a slot, the slots and one index beyond them
AllIds == {MakeID(g, i) : g \in 0..(MaxGen + 2), i \in 0..MaxEntities}

\* is_alive(id) is defined and true / defined and false in the world w
AliveIn(w, id) ==
    /\ GetIndex(id) < Len(w.m_EntitySignatures)
    /\ GetIndex(id) < Len(w.m_EntityGenerations)
    /\ w.m_EntityGenerations[GetIndex(id) + 1] = GetGeneration(id)
DeadIn(w, id) ==
    \/ GetIndex(id) >= Len(w.m_EntitySignatures)
    \/ /\ GetIndex(id) < Len(w.m_EntityGenerations)
       /\ w.m_EntityGenerations[GetIndex(id) + 1] # GetGeneration(id)

\* the store for T contains id (full identifier equality)
StoreContainsIn(w, T, id) ==
    T \in DOMAIN w.m_ComponentStores /\ Contains(w.m_ComponentStores[T], id)

\* the free-list entries of one slot
FreeEntriesOf(w, index) ==
    {k \in DOMAIN w.m_FreeEntities : GetIndex(w.m_FreeEntities[k]) = index}

\* the Removed callbacks registered for T in w
RemovedCallbacks(w, T) ==
    IF T \in DOMAIN w.m_ComponentSignals THEN w.m_ComponentSignals[T].onRemoved ELSE <<>>

\* how often the k-th Removed callback of T appears in the log ev
RemovedCount(ev, T, k) ==
    Cardinality({j \in DOMAIN ev : ev[j].event = "Removed" /\ ev[j].type = T /\ ev[j].cb = k})

\* the members of World
members == <<m_EntitySignatures, m_EntityGenerations, m_FreeEntities, m_ComponentStores,
             m_StoresByID, m_OnRemovedTriggers, m_ComponentSignals>>

(***************************************************************************)
(* C1: for every component type T and every identifier e, has<T>(e) holds  *)
(* iff the signature bit of T is set at e's index iff the store for T      *)
(* contains e (index and generation).                                      *)
(***************************************************************************)
C1_HasIffBitIffStoreContains ==
    \A e \in AllIds, T \in CompTypes :
        /\ HasComponent(W, e, T) <=>
               (/\ GetIndex(e) < Len(m_EntitySignatures)
                /\ ComponentID(T) \in m_EntitySignatures[GetIndex(e) + 1])
        /\ HasComponent(W, e, T) <=> StoreContainsIn(W, T, e)

(***************************************************************************)
(* C2: after destroy(e) of a live entity e: the signature of e's slot is   *)
(* empty, the slot's generation is e's plus one, the top of the free list  *)
(* is (e.generation + 1, e.index), e is not alive and no store contains e. *)
(***************************************************************************)
DestroyedIn(w, e) ==
    /\ w.m_EntitySignatures[GetIndex(e) + 1] = EmptyMask
    /\ w.m_EntityGenerations[GetIndex(e) + 1] = GetGeneration(e) + 1
    /\ w.m_FreeEntities # <<>>
    /\ w.m_FreeEntities[Len(w.m_FreeEntities)] = MakeID(GetGeneration(e) + 1, GetIndex(e))
    /\ DeadIn(w, e)
    /\ \A T \in CompTypes : ~StoreContainsIn(w, T, e)

C2_DestroyPostState ==
    [][(lastOp'.op = "DestroyEntity" /\ AliveIn(W, lastOp'.id)) => DestroyedIn(W', lastOp'.id)]_vars

(***************************************************************************)
(* C3: destroy(e) of a live entity invokes every Removed callback of every *)
(* component type e holds exactly once, in ascending component-id order,   *)
(* and no callback of a type e does not hold.                              *)
(***************************************************************************)
RemovedOncePerHeld(w, e, ev) ==
    /\ \A T \in CompTypes :
          IF HasComponent(w, e, T)
          THEN \A k \in DOMAIN RemovedCallbacks(w, T) : RemovedCount(ev, T, k) = 1
          ELSE \A j \in DOMAIN ev : ev[j].type # T
    /\ \A j \in DOMAIN ev : ev[j].event = "Removed" /\ ev[j].id = e
    /\ \A i, j \in DOMAIN ev : i < j => ComponentID(ev[i].type) <= ComponentID(ev[j].type)

C3_DestroyFiresRemovedOnce ==
    [][(lastOp'.op = "DestroyEntity" /\ AliveIn(W, lastOp'.id))
           => RemovedOncePerHeld(W, lastOp'.id, events')]_vars

(***************************************************************************)
(* C4: a destroy(e) issued by a Removed callback that runs because of an   *)
(* ongoing destroy(e) is a no-op: no callback runs inside it, and the      *)
(* outer destroy ends with the generation incremented once and one more    *)
(* free-list entry for e's slot.                                           *)
(***************************************************************************)
\* a callback that destroys its entity ran at the top level of the call
DestroyCallbackRan(w, ev) ==
    \E j \in DOMAIN ev :
        /\ ev[j].depth = 0 /\ ev[j].event = "Removed"
        /\ RemovedCallbacks(w, ev[j].type)[ev[j].cb] = "destroy"

C4_ReentrantDestroyIsNoOp ==
    [][(/\ lastOp'.op = "DestroyEntity"
        /\ AliveIn(W, lastOp'.id)
        /\ DestroyCallbackRan(W, events'))
       => (/\ \A j \in DOMAIN events' : events'[j].depth = 0
           /\ m_EntityGenerations'[GetIndex(lastOp'.id) + 1] = GetGeneration(lastOp'.id) + 1
           /\ Cardinality(FreeEntriesOf(W', GetIndex(lastOp'.id)))
                  = Cardinality(FreeEntriesOf(W, GetIndex(lastOp'.id))) + 1)]_vars

(***************************************************************************)
(* C5: destroy(id) of an identifier that is not alive (its generation is   *)
(* not the slot's, or its index is beyond the entity count) changes no     *)
(* member of the World and invokes no callback.                            *)
(***************************************************************************)
C5_DestroyDeadIsNoOp ==
    [][(lastOp'.op = "DestroyEntity" /\ DeadIn(W, lastOp'.id))
           => (UNCHANGED members /\ events' = <<>>)]_vars

\* destroy of a stale identifier has returned: the slot's entity is alive under
\* another generation, holds a component, and a Removed callback is registered
C5_Witness ==
    /\ lastOp.op = "DestroyEntity"
    /\ DeadIn(W, lastOp.id)
    /\ \E g \in Gens : g # GetGeneration(lastOp.id) /\ AliveIn(W, MakeID(g, GetIndex(lastOp.id)))
    /\ m_EntitySignatures[GetIndex(lastOp.id) + 1] # EmptyMask
    /\ \E T \in CompTypes :
          /\ HasComponent(W, lastOp.id, T)
          /\ RemovedCallbacks(W, T) # <<>>

(***************************************************************************)
(* C6: create() with a non-empty free list returns the slot on top of it,  *)
(* with the generation the top entry carries (one more than the destroyed  *)
(* identifier's), and the destroyed identifier is not alive afterwards;    *)
(* with an empty free list it returns (0, previous entity count).          *)
(***************************************************************************)
C6_CreateReturnsTopOfFreeList ==
    [][lastOp'.op = "CreateEntity" =>
        IF m_FreeEntities # <<>>
        THEN LET top == m_FreeEntities[Len(m_FreeEntities)] IN
             /\ lastOp'.ret = <<top>>
             /\ DeadIn(W', MakeID(GetGeneration(top) - 1, GetIndex(top)))
        ELSE lastOp'.ret = <<MakeID(0, Len(m_EntitySignatures))>>]_vars

(***************************************************************************)
(* C7: create_bulk(n) returns n pairwise distinct identifiers, all alive:  *)
(* first the free-list entries, last freed first, then fresh consecutive   *)
(* indices from the previous entity count on, generation 0.                *)
(***************************************************************************)
BulkExpected(w, n) ==
    LET reused == IF n < Len(w.m_FreeEntities) THEN n ELSE Len(w.m_FreeEntities) IN
    [k \in 1..n |->
        IF k <= reused
        THEN w.m_FreeEntities[Len(w.m_FreeEntities) - k + 1]
        ELSE MakeID(0, Len(w.m_EntitySignatures) + (k - reused) - 1)]

C7_BulkReturnsDistinctLive ==
    [][lastOp'.op = "CreateEntitiesBulk" =>
        /\ lastOp'.ret = BulkExpected(W, lastOp'.value)
        /\ \A i, j \in DOMAIN lastOp'.ret : i # j => lastOp'.ret[i] # lastOp'.ret[j]
        /\ \A i \in DOMAIN lastOp'.ret : AliveIn(W', lastOp'.ret[i])]_vars

(***************************************************************************)
(* C8: after create_with_id(id): it returned id, id is alive, no other     *)
(* generation of id's slot is alive, and the free list holds no entry of   *)
(* id's slot.                                                              *)
(***************************************************************************)
C8_CreateWithIDInstalls ==
    [][lastOp'.op = "CreateEntityWithID" =>
        /\ lastOp'.ret = <<lastOp'.id>>
        /\ AliveIn(W', lastOp'.id)
        /\ \A e \in AllIds :
              (GetIndex(e) = GetIndex(lastOp'.id) /\ e # lastOp'.id) => DeadIn(W', e)
        /\ FreeEntriesOf(W', GetIndex(lastOp'.id)) = {}]_vars

(***************************************************************************)
(* C9: in a SparseSet that holds a key e, for a stale e' (same index,      *)
(* other generation) Contains(e') returns false and Remove(e') leaves the  *)
(* set as it was: same keys, values and dense order.                       *)
(***************************************************************************)
\* s holds a key with the index of entity under another generation
StaleIn(s, entity) ==
    \E k \in DOMAIN s.m_DenseToEntity :
        /\ GetIndex(s.m_DenseToEntity[k]) = GetIndex(entity)
        /\ GetGeneration(s.m_DenseToEntity[k]) # GetGeneration(entity)

C9_StaleKeyRejected ==
    [][/\ (ssOp'.op = "Remove" /\ StaleIn(set, ssOp'.entity)) => set' = set
       /\ (ssOp'.op = "Contains" /\ StaleIn(set, ssOp'.entity)) => ssOp'.ret = FALSE]_vars

\* Remove of a stale key has returned on a set of two keys
C9_Witness ==
    /\ ssOp.op = "Remove"
    /\ StaleIn(set, ssOp.entity)
    /\ Size(set) = 2
    /\ ssOp.size = 2

(***************************************************************************)
(* C10: after any Insert and Remove calls: data and entities have the same *)
(* length, sparse[entities[i].index] = i for every dense index i, every    *)
(* non-null sparse slot is a valid dense index, and no two dense entries   *)
(* share an entity index.                                                  *)
(***************************************************************************)
C10_SparseSetInvariant ==
    /\ Len(set.m_DenseData) = Len(set.m_DenseToEntity)
    /\ \A i \in 0..(Len(set.m_DenseToEntity) - 1) :
          DenseIndexOf(set, GetIndex(set.m_DenseToEntity[i + 1])) = i
    /\ \A p \in DOMAIN set.m_SparsePages :
          \A o \in DOMAIN set.m_SparsePages[p].slot :
              /\ set.m_SparsePages[p].allocated
              /\ set.m_SparsePages[p].slot[o] >= 0
              /\ set.m_SparsePages[p].slot[o] < Len(set.m_DenseToEntity)
    /\ \A i, j \in DOMAIN set.m_DenseToEntity :
          i # j => GetIndex(set.m_DenseToEntity[i]) # GetIndex(set.m_DenseToEntity[j])

\* Remove has taken an interior key out of a full set: the last key was moved
C10_Witness ==
    /\ ssOp.op = "Remove"
    /\ ssOp.size = MaxSetSize
    /\ Size(set) = MaxSetSize - 1
    /\ ~Contains(set, ssOp.entity)
    /\ GetPageID(GetIndex(set.m_DenseToEntity[1])) = 1


(***************************************************************************)
(* Vocabulary of the observer properties.                                  *)
(***************************************************************************)
\* the callbacks registered for (T, event) in w, in list order
Listeners(w, T, event) ==
    IF T \in DOMAIN w.m_ComponentSignals THEN SignalList(w.m_ComponentSignals[T], event) ELSE <<>>

\* the log entries of one nesting depth
AtDepth(ev, depth) == SelectSeq(ev, LAMBDA x : x.depth = depth)

\* ev is one dispatch of (T, event) for id to n callbacks: the 1st, ..., the n-th,
\* each once and in this order
IsDispatch(ev, T, event, id, n) ==
    /\ Len(ev) = n
    /\ \A k \in DOMAIN ev :
          ev[k].cb = k /\ ev[k].type = T /\ ev[k].event = event /\ ev[k].id = id

(***************************************************************************)
(* C11: add<T>(e, v) when has<T>(e): afterwards get<T>(e) = v and the      *)
(* store's size is what it was; every Added callback of T has run once     *)
(* and was handed v; no Removed (nor Modified) callback has run.           *)
(***************************************************************************)
C11_AddOverwrites ==
    [][(lastOp'.op = "AddComponent" /\ HasComponent(W, lastOp'.id, lastOp'.type)) =>
        LET T == lastOp'.type IN
        /\ GetValue(W', T, lastOp'.id) = lastOp'.value
        /\ T \in DOMAIN m_ComponentStores
        /\ StoreSize(T, m_ComponentStores'[T]) = StoreSize(T, m_ComponentStores[T])
        /\ IsDispatch(events', T, "Added", lastOp'.id, Len(Listeners(W, T, "Added")))
        /\ \A k \in DOMAIN events' : events'[k].value = lastOp'.value]_vars

\* an overwriting add has returned, two Added callbacks have seen the new value
C11_Witness ==
    /\ lastOp.op = "AddComponent"
    /\ lastOp.had
    /\ Len(events) = 2
    /\ lastOp.value = MaxVal
    /\ Listeners(W, lastOp.type, "Removed") # <<>>

(***************************************************************************)
(* C12: remove<T>(e) when has<T>(e): every Removed callback of T runs      *)
(* while the store for T still contains e and has<T>(e) is still true, and *)
(* is handed the component's current value; when the call has returned the *)
(* store does not contain e and has<T>(e) is false.  When e does not have  *)
(* T, remove<T>(e) invokes no callback and changes no member of the World. *)
(***************************************************************************)
C12_RemoveFiresThenErases ==
    [][lastOp'.op = "RemoveComponent" =>
        LET T == lastOp'.type
            e == lastOp'.id
        IN  IF HasComponent(W, e, T)
            THEN /\ \A k \in DOMAIN events' :
                       (events'[k].depth = 0) =>
                           /\ events'[k].event = "Removed" /\ events'[k].id = e
                           /\ events'[k].has /\ events'[k].contains
                           /\ events'[k].value = GetValue(W, T, e)
                 /\ \A c \in DOMAIN Listeners(W, T, "Removed") :
                       \E k \in DOMAIN events' : events'[k].depth = 0 /\ events'[k].cb = c
                 /\ ~StoreContainsIn(W', T, e)
                 /\ ~HasComponent(W', e, T)
            ELSE events' = <<>> /\ UNCHANGED members]_vars

KindOf(op) ==
    CASE op = "AddComponent" -> "Added"
      [] op = "PatchComponent" -> "Modified"
      [] OTHER -> "Removed"

\* the operation called in the state dispatches its event for (T, e)
Dispatches(op, e, T) ==
    CASE op = "AddComponent" -> TRUE
      [] op \in {"PatchComponent", "RemoveComponent"} -> HasComponent(W, e, T)
      [] op = "DestroyEntity" -> AliveIn(W, e) /\ HasComponent(W, e, T)
      [] OTHER -> FALSE

C14_DispatchInRegistrationOrder ==
    [][/\ lastOp'.op = "OnEvent" =>
            \E K \in Events, callback \in Behaviours :
                /\ Listeners(W', lastOp'.type, K) = Append(Listeners(W, lastOp'.type, K), callback)
                /\ \A K2 \in Events \ {K} :
                      Listeners(W', lastOp'.type, K2) = Listeners(W, lastOp'.type, K2)
       /\ \A T \in {"Position"} :
            LET n == Len(Listeners(W, T, KindOf(lastOp'.op)))
                outer == AtDepth(events', 0)
                inner == AtDepth(events', 1)
            IN  /\ Dispatches(lastOp'.op, lastOp'.id, T) =>
                      IsDispatch(outer, T, KindOf(lastOp'.op), lastOp'.id, n)
                /\ inner # <<>> => IsDispatch(inner, T, "Removed", lastOp'.id, n)]_vars

\* a remove has returned: two Removed callbacks have run, and again inside the
\* DestroyEntity the first of them called
C14_Witness ==
    /\ lastOp.op = "RemoveComponent"
    /\ Len(AtDepth(events, 0)) = 2
    /\ Len(AtDepth(events, 1)) = 2
    /\ events[1].depth = 0 /\ events[2].depth = 1 /\ events[4].depth = 0

(***************************************************************************)
(* C15: an add<T> invokes callbacks of kind Added only, a patch<T> of kind *)
(* Modified only, a remove<T> of kind Removed only.  With callbacks that   *)
(* record what they are handed: add<T>(e, v) invokes each Added callback   *)
(* once with v and leaves get<T>(e) = v; patch<T>(e, f) on that component  *)
(* invokes each Modified callback once with f of the stored value and      *)
(* stores it; remove<T>(e) invokes each Removed callback once with the     *)
(* stored value.  So add(e, v); patch(e, f); remove(e) with one callback   *)
(* per kind yields the counts (1, 1, 1) and the values v, f(v), f(v).      *)
(***************************************************************************)
\* every Removed callback of T in the state only records
OnlyRecords(T) == \A k \in DOMAIN Listeners(W, T, "Removed") : Listeners(W, T, "Removed")[k] = "record"

\* how many entries of the log ev have the kind K
CountOf(ev, K) == Cardinality({k \in DOMAIN ev : ev[k].event = K})

C15_OwnKindOnly ==
    [][LET op == lastOp'.op
           T == lastOp'.type
           e == lastOp'.id
           stored == GetValue(W, T, e)
       IN  /\ op \in {"AddComponent", "PatchComponent", "RemoveComponent"} =>
                 \A k \in DOMAIN events' : events'[k].event = KindOf(op)
           /\ op = "AddComponent" =>
                 /\ CountOf(events', "Added") = Len(Listeners(W, T, "Added"))
                 /\ \A k \in DOMAIN events' : events'[k].value = lastOp'.value
                 /\ GetValue(W', T, e) = lastOp'.value
           /\ (op = "PatchComponent" /\ HasComponent(W, e, T)) =>
                 /\ CountOf(events', "Modified") = Len(Listeners(W, T, "Modified"))
                 /\ \A k \in DOMAIN events' : events'[k].value = ApplyPatch(stored, lastOp'.value)
                 /\ GetValue(W', T, e) = ApplyPatch(stored, lastOp'.value)
           /\ (op = "RemoveComponent" /\ HasComponent(W, e, T) /\ OnlyRecords(T)) =>
                 /\ CountOf(events', "Removed") = Len(Listeners(W, T, "Removed"))
                 /\ \A k \in DOMAIN events' : events'[k].value = stored]_vars

\* with one callback per kind registered, a remove has returned whose Removed
\* callback was handed the patched value
C15_Witness ==
    /\ lastOp.op = "RemoveComponent"
    /\ lastOp.had
    /\ AliveIn(W, lastOp.id)
    /\ \A K \in Events : Len(Listeners(W, lastOp.type, K)) = 1
    /\ Len(events) = 1
    /\ events[1].value = ApplyPatch(0, 1)

(***************************************************************************)
(* C17: for an identifier whose index is at or beyond the entity count,    *)
(* has<T> answers false, and remove<T> and patch<T> invoke no callback and *)
(* leave every member of the World as it was (the patch function has       *)
(* changed nothing).                                                       *)
(***************************************************************************)
OutOfRange(w, id) == GetIndex(id) >= Len(w.m_EntitySignatures)

C17_OutOfRangeIsSilent ==
    [][OutOfRange(W, lastOp'.id) =>
        /\ lastOp'.op = "HasComponent" => lastOp'.ret = <<>>
        /\ lastOp'.op \in {"HasComponent", "RemoveComponent", "PatchComponent"} =>
              (events' = <<>> /\ UNCHANGED members)]_vars

\* a remove of an identifier beyond the entity count has returned, in a World
\* whose one entity holds the component, with a Removed callback registered
C17_Witness ==
    /\ lastOp.op = "RemoveComponent"
    /\ OutOfRange(W, lastOp.id)
    /\ m_EntitySignatures # <<>>
    /\ HasComponent(W, MakeID(0, 0), lastOp.type)
    /\ Listeners(W, lastOp.type, "Removed") # <<>>

(***************************************************************************)
(* C18: add<T>(e, v) for a component type whose id is 256 or more is       *)
(* rejected: no store gains or changes a row, no signature bit changes and *)
(* no Added callback runs.                                                 *)
(***************************************************************************)
\* the rows of the store for T in w
RowsOf(w, T) ==
    IF T \in DOMAIN w.m_ComponentStores
    THEN {<<w.m_ComponentStores[T].m_DenseToEntity[k],
            IF IsTag(T) THEN TagValue ELSE w.m_ComponentStores[T].m_DenseData[k]>> :
              k \in DOMAIN w.m_ComponentStores[T].m_DenseToEntity}
    ELSE {}

\* the signature bits of the slot index in w
BitsOf(w, index) ==
    IF index < Len(w.m_EntitySignatures) THEN w.m_EntitySignatures[index + 1] ELSE EmptyMask

C18_OverflowAddRejected ==
    [][(lastOp'.op = "AddComponent" /\ ComponentID(lastOp'.type) >= k_MaskBits) =>
        /\ \A T \in AllTypes : RowsOf(W', T) = RowsOf(W, T)
        /\ \A index \in 0..MaxEntities : BitsOf(W', index) = BitsOf(W, index)
        /\ events' = <<>>]_vars

(***************************************************************************)
(* C16: view<C1..Cn>().each(f) calls f once for every entity e that has    *)
(* every Ci and for no other entity: the keys f is called for all have     *)
(* every Ci, no slot is visited twice, and every slot whose entity has     *)
(* every Ci is visited.  The view over the same components in the other    *)
(* order (another driving store when the sizes tie) visits the same slots, *)
(* and nothing is visited when a participating store is empty.             *)
(***************************************************************************)
\* the slots of the keys in the sequence ret
SlotsOf(ret) == {GetIndex(ret[k]) : k \in DOMAIN ret}

\* the slots whose entity has every component of Cs in w
SlotsHaving(w, Cs) ==
    {index \in 0..(Len(w.m_EntitySignatures) - 1) :
        \A k \in DOMAIN Cs : HasComponent(w, MakeID(0, index), Cs[k])}

Reversed(Cs) == [k \in DOMAIN Cs |-> Cs[Len(Cs) - k + 1]]

C16_ViewVisitsExactlyHaving ==
    [][lastOp'.op = "Each" =>
        LET Cs == lastOp'.view
            visited == lastOp'.ret
        IN  /\ \A k \in DOMAIN visited : \A j \in DOMAIN Cs : HasComponent(W, visited[k], Cs[j])
            /\ \A k, j \in DOMAIN visited : k # j => GetIndex(visited[k]) # GetIndex(visited[j])
            /\ SlotsOf(visited) = SlotsHaving(W, Cs)
            /\ SlotsOf(Each(W, Reversed(Cs)).ret) = SlotsOf(visited)
            /\ (\E j \in DOMAIN Cs : RowsOf(W, Cs[j]) = {}) => visited = <<>>]_vars

(***************************************************************************)
(* Vocabulary of the scheduler properties.                                 *)
(***************************************************************************)
\* the edge a -> b: b lists a as a dependency and both are nodes of the graph
Edge(graph, a, b) ==
    /\ a \in DOMAIN graph /\ b \in DOMAIN graph
    /\ \E i \in DOMAIN graph[b].Dependencies : graph[b].Dependencies[i] = a

\* a path of one to n edges leads from a to b
RECURSIVE Path(_, _, _, _)
Path(graph, a, b, n) ==
    /\ n > 0
    /\ \/ Edge(graph, a, b)
       \/ \E c \in DOMAIN graph : Edge(graph, a, c) /\ Path(graph, c, b, n - 1)

HasCycle(graph) == \E a \in DOMAIN graph : Path(graph, a, a, Cardinality(DOMAIN graph))

\* the step is the begin of the function of b
Begins(b) ==
    /\ b \in DOMAIN status /\ b \in DOMAIN status'
    /\ status[b] = "idle" /\ status'[b] = "running"

(***************************************************************************)
(* C19: in a RunGraph call on an acyclic graph, for every edge A -> B, the *)
(* function of B begins only when the function of A has returned in this   *)
(* call, inline or on the pool.                                            *)
(***************************************************************************)
C19_RunGraphRespectsEdges ==
    [][\A a, b \in Systems :
          (~HasCycle(m_Graph) /\ Edge(m_Graph, a, b) /\ Begins(b)) => status[a] = "done"]_vars

(***************************************************************************)
(* C20: a RunGraph call on a graph with a dependency cycle (a self-        *)
(* dependency included) reports the error and calls no function of the     *)
(* graph: when the call has thrown no system has begun.  Every such call   *)
(* does, a repeated one as well.                                           *)
(***************************************************************************)
C20_CycleIsReported ==
    [][(run'.calls # run.calls /\ HasCycle(m_Graph)) =>
          /\ run'.error
          /\ run'.pc = "idle"
          /\ \A n \in DOMAIN status' : status'[n] = "idle"]_vars

(***************************************************************************)
(* C29: after any sequence of AddSystem calls with names, the re-adding of *)
(* a name included, the Dependents lists mirror the Dependencies lists:    *)
(* for all nodes a and b of the graph, b occurs in the Dependents of a as  *)
(* many times as a occurs in the Dependencies of b.                        *)
(***************************************************************************)
C29_DependentsMirrorDependencies ==
    \A a, b \in DOMAIN m_Graph :
        OccurrencesIn(m_Graph[a].Dependents, b) = OccurrencesIn(m_Graph[b].Dependencies, a)

\* the node b declares a dependency name that is no node of the graph
DeclaresMissing(graph, b) ==
    /\ b \in DOMAIN graph
    /\ \E i \in DOMAIN graph[b].Dependencies : graph[b].Dependencies[i] \notin DOMAIN graph

(***************************************************************************)
(* C21: a RunGraph call on a graph in which some node declares a           *)
(* dependency name that is no node of the graph reports the error, and the *)
(* function of that node is not called: when the call has thrown, the node *)
(* has not begun.  The graph may come from any sequence of AddSystem       *)
(* calls, the re-adding of a name with another dependency list included.   *)
(***************************************************************************)
C21_MissingDependencyIsReported ==
    [][\A b \in Systems :
          (run'.calls # run.calls /\ DeclaresMissing(m_Graph, b)) =>
             /\ run'.error
             /\ run'.pc = "idle"
             /\ status'[b] = "idle"]_vars

\* the positions of the batches that hold the name n
BatchesOf(batches, n) ==
    {k \in DOMAIN batches : \E i \in DOMAIN batches[k] : batches[k][i] = n}

\* the number of entries of the batches that are the name n
RECURSIVE EntriesOf(_, _)
EntriesOf(batches, n) ==
    IF batches = <<>> THEN 0
    ELSE OccurrencesIn(Head(batches), n) + EntriesOf(Tail(batches), n)

AllPresent(graph) == \A b \in DOMAIN graph : ~DeclaresMissing(graph, b)

\* the layer of n in an acyclic graph with all dependencies present: 0 without
\* dependencies, else one more than the largest layer of a dependency
RECURSIVE LayerOf(_, _)
LayerOf(graph, n) ==
    LET deps == {graph[n].Dependencies[i] : i \in DOMAIN graph[n].Dependencies}
        below == {LayerOf(graph, d) : d \in deps}
    IN  IF deps = {} THEN 0
        ELSE 1 + CHOOSE l \in below : \A x \in below : x <= l

\* the batches partition the nodes of the graph and put each node into the
\* batch of its layer (the first batch is the batch 0)
IsLayering(graph, batches) ==
    \A n \in DOMAIN graph :
        /\ EntriesOf(batches, n) = 1
        /\ BatchesOf(batches, n) = {LayerOf(graph, n) + 1}

(***************************************************************************)
(* C28: RebuildGraph on an acyclic graph with all dependencies present     *)
(* does not throw and produces batches that partition the nodes: each node *)
(* is in exactly one batch, a node without dependencies in batch 0, every  *)
(* other node in batch 1 + max(batch of its dependencies).                 *)
(***************************************************************************)
C28_RebuildGraphLayers ==
    [][(run'.calls # run.calls /\ m_GraphDirty /\ DOMAIN m_Graph # {}
            /\ ~HasCycle(m_Graph) /\ AllPresent(m_Graph)) =>
          /\ ~run'.error
          /\ IsLayering(m_Graph, m_BatchedGraph')]_vars

(***************************************************************************)
(* C23: work-stealing deque, at most once.  In every interleaving of the   *)
(* owner's Push and Pop calls with the Steal calls of the thieves, no      *)
(* pushed task is returned by more than one Pop or Steal call.             *)
(***************************************************************************)
C23_AtMostOnce == \A task \in Tasks : delivered[task] <= 1

\* the owner's Pop and a thief's Steal raced for the same index with their
\* compare-exchange on m_Top; the Pop won and returned the task, once
C23_Witness ==
    /\ owner.op = "Pop" /\ owner.pc = 0
    /\ owner.cas = "won" /\ owner.ret # NullTask
    /\ delivered[owner.ret] = 1
    /\ \E th \in Thieves :
          /\ thieves[th].pc = 0
          /\ thieves[th].cas = "lost"
          /\ thieves[th].t = owner.t

\* no call on the deque is in flight
Quiescent == owner.pc = 0 /\ \A th \in Thieves : thieves[th].pc = 0

(***************************************************************************)
(* C24: work-stealing deque, no loss.  Once the deque is empty (m_Top =    *)
(* m_Bottom) and every call has returned, every task whose Push returned   *)
(* true has been returned by some Pop or Steal call; when the owner's Pop  *)
(* and a thief's Steal race for the last task, one of them returns it.     *)
(***************************************************************************)
C24_NoLoss ==
    (Quiescent /\ queue.m_Top = queue.m_Bottom) =>
        \A task \in accepted : delivered[task] >= 1

\* the step is the return of the worker w from WorkerLoop
Exits(w) == m_Workers[w].pc # 0 /\ m_Workers'[w].pc = 0

(***************************************************************************)
(* C25: thread pool shutdown drains.  No worker returns from WorkerLoop    *)
(* while the global queue or its own deque holds a task, and when          *)
(* ~ThreadPool returns every task that Submit accepted before the          *)
(* destructor began has been executed.                                     *)
(***************************************************************************)
C25_ShutdownDrains ==
    [][/\ \A w \in PoolWorkers :
             Exits(w) => (m_Tasks = <<>> /\ IsEmpty(m_Queues[w]))
       /\ (main.pc # 175 /\ main'.pc = 175) =>
             \A task \in enqueued : executed'[task] >= 1]_vars

\* the step is the return of a RunParallel or Frame call
FanOutReturns ==
    /\ run'.op \in {"RunParallel", "Frame"}
    /\ run'.pc = "idle"
    /\ run.pc = "fan" \/ run'.calls # run.calls

(***************************************************************************)
(* C22: when RunParallel or Frame returns, every system it submitted has   *)
(* been called exactly once and has returned: none is running, none is     *)
(* waiting in the pool.                                                    *)
(***************************************************************************)
C22_FanOutCompletes ==
    [][FanOutReturns =>
          /\ \A i \in DOMAIN run'.pack :
                /\ Len(invoked'[run'.pack[i]]) = 1
                /\ status'[run'.pack[i]] = "done"
          /\ m_Tasks' = <<>>
          /\ \A wk \in Workers : workers'[wk] = NoTask]_vars

\* RunParallel has returned from more systems than the pool has workers, each
\* called once
C22_Witness ==
    /\ run.op = "RunParallel" /\ run.pc = "idle"
    /\ Len(run.pack) > MaxWorkers
    /\ \A i \in DOMAIN run.pack :
          Len(invoked[run.pack[i]]) = 1 /\ status[run.pack[i]] = "done"

\* the step is the return of a RunGraph call that has not thrown
RunGraphSucceeds ==
    /\ run'.op = "RunGraph" /\ run'.pc = "idle" /\ ~run'.error
    /\ run.pc = "batch" \/ run'.calls # run.calls

\* the step is the return of a RunSequential, RunParallel or Frame call
AnonymousReturns ==
    /\ run'.op \in {"RunSequential", "RunParallel", "Frame"}
    /\ run'.pc = "idle"
    /\ run.pc = "fan" \/ run'.calls # run.calls

\* every node of the graph was called exactly once, with the function last
\* registered under its name, and nothing else was called
CalledNodesOnce ==
    \A l \in Labels :
        invoked'[l] = IF l \in DOMAIN m_Graph THEN <<m_Graph[l].Func>> ELSE <<>>

(***************************************************************************)
(* C30: a RunGraph call that succeeds calls the function of every node of  *)
(* the graph exactly once, the function and the dependency list being the  *)
(* ones last registered under the name (after a RunGraph call as well): a  *)
(* node of an acyclic graph with all dependencies present begins only     *)
(* when the nodes of its dependency list have returned.  The call runs no  *)
(* anonymous system, and RunSequential, RunParallel and Frame run no named *)
(* system.                                                                 *)
(***************************************************************************)
C30_RunGraphRunsLatestOnce ==
    [][/\ RunGraphSucceeds => CalledNodesOnce
       /\ \A a, b \in Systems :
             (/\ run.op = "RunGraph" /\ ~HasCycle(m_Graph) /\ AllPresent(m_Graph)
              /\ Begins(b) /\ Edge(m_Graph, a, b)) => status[a] = "done"
       /\ AnonymousReturns => \A n \in Systems : invoked'[n] = <<>>]_vars

\* the rows of the store for T in w whose key has the slot index, any generation
RowsAt(w, T, index) == {row \in RowsOf(w, T) : GetIndex(row[1]) = index}

(***************************************************************************)
(* C27: when create_with_id(id) takes its path for an identifier that is   *)
(* not alive and clears the signature of id's slot, no component store     *)
(* holds an entry of that slot, under any generation: after the call no    *)
(* store has a component for the slot whose signature bits are clear.      *)
(***************************************************************************)
C27_CreateWithIDLeavesNoRows ==
    [][(/\ lastOp'.op = "CreateEntityWithID"
        /\ GetIndex(lastOp'.id) < Len(m_EntitySignatures)
        /\ DeadIn(W, lastOp'.id)) =>
          /\ BitsOf(W', GetIndex(lastOp'.id)) = EmptyMask
          /\ \A T \in CompTypes : RowsAt(W', T, GetIndex(lastOp'.id)) = {}]_vars


(***************************************************************************)
(* The binary round trip.                                                  *)
(***************************************************************************)
\* the identifiers of the slots of w, each with the generation its slot has
SlotIDs(w) == {MakeID(w.m_EntityGenerations[i], i - 1) : i \in DOMAIN w.m_EntityGenerations}
\* the slot of index is on the free list of w: its entity was destroyed
Destroyed(w, index) == \E k \in DOMAIN w.m_FreeEntities : GetIndex(w.m_FreeEntities[k]) = index
\* id names an entity of w that was created and not destroyed
Live(w, id) ==
    /\ GetIndex(id) < Len(w.m_EntitySignatures)
    /\ id \in SlotIDs(w)
    /\ ~Destroyed(w, GetIndex(id))
RoundTripDone == stream # <<>> /\ ~ub

\* C26: after SerializeBinary of a World and DeserializeBinary of the stream
\* into an empty World, an identifier is alive (created and not destroyed) in
\* the restored World iff it is alive in the original, with the same
\* generation and the same signature, and no slot that was destroyed in the
\* original holds a live entity in the restored World
C26_RoundTripPreservesLive ==
    RoundTripDone =>
        /\ \A id \in SlotIDs(W) \cup SlotIDs(restored) : Live(restored, id) <=> Live(W, id)
        /\ \A id \in SlotIDs(W) :
               Live(W, id) /\ Live(restored, id)
                   => GetEntityMask(restored, id) = GetEntityMask(W, id)
        /\ \A id \in SlotIDs(restored) : Live(restored, id) => ~Destroyed(W, GetIndex(id))

(***************************************************************************)
(* SparseSet: the effect of one Remove and of one Insert.                  *)
(***************************************************************************)
\* C33: Remove( e ) of a contained key decreases the size by exactly one and
\* makes Contains( e ) false; every other contained key stays contained and
\* Get returns for it the value it returned before, whether e was the last
\* dense element or an interior one
C33_RemoveKeepsOthers ==
    [][(ssOp'.op = "Remove" /\ Contains(set, ssOp'.entity)) =>
          /\ Size(set') = Size(set) - 1
          /\ ~Contains(set', ssOp'.entity)
          /\ \A k \in SetKeys \ {ssOp'.entity} :
                 Contains(set, k) => Contains(set', k) /\ Get(set', k) = Get(set, k)]_vars
\* an interior key was removed: the set held three keys, the first of them is
\* gone and the key that was last sits in its row
C33_Witness ==
    /\ ssOp.op = "Remove"
    /\ ssOp.size = 3
    /\ Size(set) = 2
    /\ ssOp.entity = MakeID(0, 0)
    /\ set.m_DenseToEntity = <<MakeID(0, k_PageSize), MakeID(0, 1)>>
    /\ set.m_DenseData = <<1, 0>>

\* C34: Insert( e2, v ) into a set that holds a key e1 of the same index and
\* another generation replaces the entry in place: the size is unchanged,
\* Contains( e1 ) is false, Contains( e2 ) is true and Get( e2 ) is v; Insert of
\* a key whose index is not present appends one entry and Get returns v
C34_InsertReplacesInPlace ==
    [][ssOp'.op = "Insert" =>
          LET e2 == ssOp'.entity
              denseIndex == DenseIndexOf(set, GetIndex(e2))
          IN  /\ Contains(set', e2)
              /\ Get(set', e2) = ssOp'.component
              /\ IF denseIndex # k_NullIndex
                 THEN LET e1 == set.m_DenseToEntity[denseIndex + 1]
                      IN  /\ Size(set') = Size(set)
                          /\ e1 # e2 => ~Contains(set', e1)
                          /\ set'.m_DenseToEntity =
                                 SetAt(set.m_DenseToEntity, denseIndex, e2)
                 ELSE /\ Size(set') = Size(set) + 1
                      /\ set'.m_DenseToEntity = Append(set.m_DenseToEntity, e2)]_vars
\* a key of generation 1 was inserted over the row of its index, the first of
\* two rows: the size is what it was and the key of generation 0 is not contained
C34_Witness ==
    /\ ssOp.op = "Insert"
    /\ ssOp.entity = MakeID(1, 1)
    /\ ssOp.component = 1
    /\ ssOp.size = 2
    /\ set.m_DenseToEntity = <<MakeID(1, 1), MakeID(0, k_PageSize)>>
    /\ set.m_DenseData = <<1, 0>>
    /\ ~Contains(set, MakeID(0, 1))

(***************************************************************************)
(* World: the entity vectors and the free list.                            *)
(***************************************************************************)
\* C35: after any sequence of World operations, AddComponent on an identifier
\* whose index is beyond the entity count included, m_EntitySignatures and
\* m_EntityGenerations have the same length, and no operation has read
\* m_EntityGenerations outside its bounds
C35_VectorsSameLength ==
    /\ Len(m_EntitySignatures) = Len(m_EntityGenerations)
    /\ ~ub

\* the identifier the slot of index carries in w
CurrentID(w, index) == MakeID(w.m_EntityGenerations[index + 1], index)
\* the indices of the slots of w, and those of them on its free list
IndicesOf(w) == 0..(Len(w.m_EntitySignatures) - 1)
FreeSlots(w) == {GetIndex(w.m_FreeEntities[k]) : k \in DOMAIN w.m_FreeEntities}

\* C36: IsAlive( x ) is true only for identifiers that CreateEntity,
\* CreateEntitiesBulk or CreateEntity( id ) returned and that were not destroyed
\* since: it is false for the identifier a slot on the free list carries after
\* the increment of its generation, and false for the identifiers of slots
\* that CreateEntity( id ) only allocated as padding when it grew the vectors
C36_AliveOnlyIfIssued ==
    [][/\ \A index \in FreeSlots(W') : ~IsAlive(W', CurrentID(W', index), 0)
       /\ (lastOp'.op = "DestroyEntity" /\ IsAlive(W, lastOp'.id, 0)) =>
              ~IsAlive(W', MakeID(GetGeneration(lastOp'.id) + 1, GetIndex(lastOp'.id)), 0)
       /\ lastOp'.op = "CreateEntityWithID" =>
              \A index \in IndicesOf(W') \ IndicesOf(W) :
                  index # GetIndex(lastOp'.id) => ~IsAlive(W', CurrentID(W', index), 0)]_vars

\* C37: after any sequence of CreateEntity, CreateEntitiesBulk,
\* CreateEntity( id ) and DestroyEntity calls with arbitrary identifiers the
\* free list holds at most one entry per index and the generation of each
\* entry is that of its slot; CreateEntity and CreateEntitiesBulk return no
\* identifier that is alive and off the free list when they are called, and
\* no identifier twice
C37_FreeListSound ==
    [][/\ \A j, k \in DOMAIN m_FreeEntities' :
              GetIndex(m_FreeEntities'[j]) = GetIndex(m_FreeEntities'[k]) => j = k
       /\ \A k \in DOMAIN m_FreeEntities' :
              m_FreeEntities'[k] = CurrentID(W', GetIndex(m_FreeEntities'[k]))
       /\ lastOp'.op \in {"CreateEntity", "CreateEntitiesBulk"} =>
              /\ \A k \in DOMAIN lastOp'.ret :
                     ~(/\ IsAlive(W, lastOp'.ret[k], 0)
                       /\ GetIndex(lastOp'.ret[k]) \notin FreeSlots(W))
              /\ \A j, k \in DOMAIN lastOp'.ret :
                     lastOp'.ret[j] = lastOp'.ret[k] => j = k]_vars

\* id is stale in w: its slot holds a live entity of a later generation
StaleIdentifier(w, id) ==
    /\ GetIndex(id) < Len(w.m_EntityGenerations)
    /\ GetIndex(id) < Len(w.m_EntitySignatures)
    /\ GetGeneration(id) < w.m_EntityGenerations[GetIndex(id) + 1]
    /\ GetIndex(id) \notin FreeSlots(w)

\* C38: component operations called with a stale identifier (the index of a
\* live entity e, an older generation) do not affect e: HasComponent answers
\* false, and AddComponent, RemoveComponent and PatchComponent leave
\* HasComponent of e, the store membership of e and the component of e as
\* they were and fire no event
C38_StaleIdentifierHasNoEffect ==
    [][(/\ lastOp'.op \in {"HasComponent", "AddComponent", "RemoveComponent", "PatchComponent"}
        /\ StaleIdentifier(W, lastOp'.id)) =>
          LET e == CurrentID(W, GetIndex(lastOp'.id))
              T == lastOp'.type
          IN  /\ lastOp'.op = "HasComponent" => lastOp'.ret = <<>>
              /\ HasComponent(W', e, T) = HasComponent(W, e, T)
              /\ StoreContainsIn(W', T, e) = StoreContainsIn(W, T, e)
              /\ StoreContainsIn(W, T, e) => GetValue(W', T, e) = GetValue(W, T, e)
              /\ events' = <<>>]_vars

\* C32: DestroyEntity( e ) leaves every other entity untouched: for every
\* identifier x of another index, IsAlive( x ), the signature of x, the store
\* membership of x and the value GetComponent<T>( x ) returns for every T that
\* x has are after the call what they were before it.  A call that reads
\* m_EntityGenerations beyond its end has no defined effect and is left to C35
C32_DestroyLeavesOthers ==
    [][(lastOp'.op = "DestroyEntity" /\ ~ub') =>
          \A x \in AllIds :
              GetIndex(x) # GetIndex(lastOp'.id) =>
                  /\ AliveIn(W', x) = AliveIn(W, x)
                  /\ BitsOf(W', GetIndex(x)) = BitsOf(W, GetIndex(x))
                  /\ Len(m_EntitySignatures') = Len(m_EntitySignatures)
                  /\ \A T \in CompTypes :
                         /\ StoreContainsIn(W', T, x) = StoreContainsIn(W, T, x)
                         /\ HasComponent(W, x, T) => GetValue(W', T, x) = GetValue(W, T, x)]_vars
\* the entity of slot 0, whose row is the first of the store, was destroyed
\* while the entity of slot 1 holds the component of value 1: the row of the
\* neighbour was moved into the freed row
C32_Witness ==
    /\ lastOp.op = "DestroyEntity"
    /\ lastOp.id = MakeID(0, 0)
    /\ m_EntityGenerations = <<1, 0>>
    /\ m_EntitySignatures = <<EmptyMask, {ComponentID("Position")}>>
    /\ StoreContainsIn(W, "Position", MakeID(0, 1))
    /\ GetValue(W, "Position", MakeID(0, 1)) = 1
    /\ ~StoreContainsIn(W, "Position", MakeID(0, 0))

\* C39: inside every Removed callback fired by DestroyEntity( e ) of an entity
\* for which the World was consistent, the World is consistent for e: for
\* every component type U, HasComponent<U>( e ) is true iff the store of U
\* contains e
C39_RemovedCallbackSeesConsistentWorld ==
    [][(/\ lastOp'.op = "DestroyEntity"
        /\ AliveIn(W, lastOp'.id)
        /\ HasOf(W, lastOp'.id) = StoresOf(W, lastOp'.id)) =>
          \A j \in DOMAIN events' :
              (events'[j].event = "Removed" /\ events'[j].id = lastOp'.id)
                  => events'[j].hasOf = events'[j].storesOf]_vars

(***************************************************************************)
(* WorkStealingQueue: what Push stores over.                               *)
(***************************************************************************)
\* the tasks the slots of q hold: stored by a Push and taken out by no
\* exchange of a Pop or a Steal yet
Undelivered(q) == {i \in Slots : q.m_Tasks[i] # NullTask}

\* C31: the deque is bounded and Push never overwrites: a Push that finds as
\* many undelivered tasks in the slots as the deque has capacity returns
\* false without storing, and in every interleaving with concurrent Steals
\* the store of a Push goes to a slot whose previous task was taken out by the
\* Pop or Steal that claimed it
C31_PushNeverOverwrites ==
    [][(owner.op = "Push" /\ owner.pc # 0) =>
          /\ (owner.pc = 38 /\ Cardinality(Undelivered(queue)) = Capacity)
                 => (owner'.pc = 0 /\ ~owner'.ok /\ queue' = queue)
          /\ (owner.pc = 41 /\ owner'.pc = 42)
                 => queue.m_Tasks[owner.b % Capacity] = NullTask]_vars


(***************************************************************************)
(* Termination of the scheduler's calls.                                   *)
(***************************************************************************)
\* thread th is inside a call of Frame or RunParallel
InCall(th) == th \in DOMAIN threads /\ threads[th].pc \in {101, 105}

\* C40: under fair scheduling, with at least one worker and systems that
\* terminate, every call a thread has entered eventually returns, whether
\* the thread is the one that owns the scheduler or a pool worker whose
\* system made the call
C40_EveryCallReturns ==
    \A th \in NestThreads : InCall(th) ~> ~InCall(th)

====
